---- MODULE Spec2Model ----
(***************************************************************************)
(* UDP service discovery of rustnlp: the announcers and the responder of   *)
(* src/src/udp_broadcast.rs and the discovery clients of src/examples.     *)
(*                                                                         *)
(* Text is a sequence of one-character strings.  A datagram's payload is   *)
(* the text the sender put on the wire; the receivers decode it with the   *)
(* JSON reader modelled below (serde_json::from_str::<Value>).             *)
(***************************************************************************)
EXTENDS Integers, Sequences, FiniteSets, TLC

(***************************************************************************)
(* Bounds of the model                                                     *)
(***************************************************************************)
\* datagrams (and receive errors) one discovery run is given before the
\* environment falls silent
MaxRecv == 3

\* largest max_count the Limited announcer is started with
MaxCount == 4

\* entries of the histories kept in the unending runs of SpecLive
HistoryKept == 1

\* steps a responder's trace records
MaxTrace == 2

(***************************************************************************)
(* Program constants                                                       *)
(***************************************************************************)
\* let mut buf = [0; 1024]
BUF_SIZE == 1024

\* expected_key = "SECRETKEY123"
expected_key == <<"S","E","C","R","E","T","K","E","Y","1","2","3">>

\* discovery_message = "DISCOVER"
discovery_message == <<"D","I","S","C","O","V","E","R">>

(***************************************************************************)
(* Text                                                                    *)
(***************************************************************************)
Digits == <<"0","1","2","3","4","5","6","7","8","9">>

DigitChars == {Digits[i] : i \in 1..10}

DigitVal(c) == (CHOOSE i \in 1..10 : Digits[i] = c) - 1

\* Display of an unsigned integer ("{}" of u16 / u64): decimal, no sign, no
\* leading zero.
RECURSIVE to_string(_)
to_string(n) ==
    IF n < 10 THEN <<Digits[n + 1]>>
    ELSE to_string(n \div 10) \o <<Digits[(n % 10) + 1]>>

\* A byte sequence that is not UTF-8 is modelled by the symbol BadByte, which
\* from_utf8_lossy replaces by U+FFFD; every other symbol is ASCII and kept.
BadByte == "<0xFF>"

ReplacementChar == "<U+FFFD>"

from_utf8_lossy(bytes) ==
    [i \in 1..Len(bytes) |-> IF bytes[i] = BadByte THEN ReplacementChar ELSE bytes[i]]

\* socket.recv_from(&mut buf): at most buf.len() bytes of the datagram
Truncate(bytes, n) == IF Len(bytes) <= n THEN bytes ELSE SubSeq(bytes, 1, n)

\* str::contains
contains(s, pat) ==
    \E i \in 0..(Len(s) - Len(pat)) : SubSeq(s, i + 1, i + Len(pat)) = pat

(***************************************************************************)
(* serde_json::from_str::<Value>: a recursive-descent reader of JSON text. *)
(* A result is [ok, pos, val]: pos is the index after the value read.      *)
(* Values: [t |-> "str", v], [t |-> "u64", v], [t |-> "i64"], [t |-> "f64"]*)
(* [t |-> "lit"], [t |-> "arr"], [t |-> "obj", v |-> <<[k, v], ...>>].     *)
(***************************************************************************)
Fail == [ok |-> FALSE, pos |-> 0, val |-> [t |-> "none"]]

Ok(p, v) == [ok |-> TRUE, pos |-> p, val |-> v]

IsWs(c) == c \in {" ", "\n", "\t", "\r"}

\* the index of the first character at or after i that is no white space
\* (one past the end when there is none)
SkipWs(s, i) ==
    LET rest == {j \in i..Len(s) : ~IsWs(s[j])}
    IN  IF i > Len(s) THEN i
        ELSE IF rest = {} THEN Len(s) + 1
        ELSE CHOOSE j \in rest : \A k \in rest : j <= k

\* the escapes of a JSON string (\u is outside the modelled alphabet)
Unescape(c) ==
    CASE c = "\"" -> "\""
      [] c = "\\" -> "\\"
      [] c = "/"  -> "/"
      [] c = "n"  -> "\n"
      [] c = "t"  -> "\t"
      [] c = "r"  -> "\r"
      [] OTHER    -> "?"

EscapeChars == {"\"", "\\", "/", "n", "t", "r"}

\* s[i] is the first character after the opening quote
RECURSIVE ParseStrBody(_, _, _)
ParseStrBody(s, i, acc) ==
    IF i > Len(s) THEN Fail
    ELSE IF s[i] = "\"" THEN Ok(i + 1, [t |-> "str", v |-> acc])
    ELSE IF s[i] = "\\" THEN
        IF i + 1 <= Len(s) /\ s[i + 1] \in EscapeChars
        THEN ParseStrBody(s, i + 2, Append(acc, Unescape(s[i + 1])))
        ELSE Fail
    ELSE IF s[i] \in {"\n", "\t", "\r"} THEN Fail
    ELSE ParseStrBody(s, i + 1, Append(acc, s[i]))

RECURSIVE ParseDigits(_, _, _)
ParseDigits(s, i, acc) ==
    IF i <= Len(s) /\ s[i] \in DigitChars
    THEN ParseDigits(s, i + 1, 10 * acc + DigitVal(s[i]))
    ELSE [pos |-> i, n |-> acc]

\* s[i] is "-" or a digit.  An integer without sign is a u64, a negative one
\* an i64, and a number with a fraction or an exponent an f64.
ParseNumber(s, i) ==
    LET neg == s[i] = "-"
        j   == IF neg THEN i + 1 ELSE i
    IN  IF j > Len(s) \/ s[j] \notin DigitChars THEN Fail
        ELSE LET d == IF s[j] = "0" THEN [pos |-> j + 1, n |-> 0]
                      ELSE ParseDigits(s, j, 0)
                 k == d.pos
             IN  IF k <= Len(s) /\ s[k] \in DigitChars THEN Fail
                 ELSE IF k <= Len(s) /\ s[k] \in {".", "e", "E"} THEN
                     LET f == IF k + 1 <= Len(s) /\ s[k + 1] \in DigitChars
                              THEN ParseDigits(s, k + 1, 0)
                              ELSE [pos |-> 0, n |-> 0]
                     IN  IF f.pos = 0 THEN Fail ELSE Ok(f.pos, [t |-> "f64"])
                 ELSE IF neg THEN Ok(k, [t |-> IF d.n = 0 THEN "f64" ELSE "i64"])
                 ELSE Ok(k, [t |-> "u64", v |-> d.n])

IsWord(s, i, w) == i + Len(w) - 1 <= Len(s) /\ SubSeq(s, i, i + Len(w) - 1) = w

RECURSIVE ParseValue(_, _)
RECURSIVE ParseMembers(_, _, _)
RECURSIVE ParseElements(_, _)

\* after "{" or after a ",": a member "key": value, then "," or "}"
ParseMembers(s, i0, acc) ==
    LET i == SkipWs(s, i0)
    IN  IF i > Len(s) \/ s[i] # "\"" THEN Fail
        ELSE LET k == ParseStrBody(s, i + 1, <<>>)
             IN  IF ~k.ok THEN Fail
                 ELSE LET c == SkipWs(s, k.pos)
                      IN  IF c > Len(s) \/ s[c] # ":" THEN Fail
                          ELSE LET v == ParseValue(s, c + 1)
                               IN  IF ~v.ok THEN Fail
                                   ELSE LET e    == SkipWs(s, v.pos)
                                            acc2 == Append(acc, [k |-> k.val.v, v |-> v.val])
                                        IN  IF e > Len(s) THEN Fail
                                            ELSE IF s[e] = "," THEN ParseMembers(s, e + 1, acc2)
                                            ELSE IF s[e] = "}" THEN Ok(e + 1, [t |-> "obj", v |-> acc2])
                                            ELSE Fail

\* after "[" or after a ",": a value, then "," or "]"
ParseElements(s, i0) ==
    LET v == ParseValue(s, i0)
    IN  IF ~v.ok THEN Fail
        ELSE LET e == SkipWs(s, v.pos)
             IN  IF e > Len(s) THEN Fail
                 ELSE IF s[e] = "," THEN ParseElements(s, e + 1)
                 ELSE IF s[e] = "]" THEN Ok(e + 1, [t |-> "arr"])
                 ELSE Fail

ParseValue(s, i0) ==
    LET i == SkipWs(s, i0)
    IN  IF i > Len(s) THEN Fail
        ELSE IF s[i] = "{" THEN
            LET j == SkipWs(s, i + 1)
            IN  IF j <= Len(s) /\ s[j] = "}" THEN Ok(j + 1, [t |-> "obj", v |-> <<>>])
                ELSE ParseMembers(s, i + 1, <<>>)
        ELSE IF s[i] = "[" THEN
            LET j == SkipWs(s, i + 1)
            IN  IF j <= Len(s) /\ s[j] = "]" THEN Ok(j + 1, [t |-> "arr"])
                ELSE ParseElements(s, i + 1)
        ELSE IF s[i] = "\"" THEN ParseStrBody(s, i + 1, <<>>)
        ELSE IF s[i] = "-" \/ s[i] \in DigitChars THEN ParseNumber(s, i)
        ELSE IF IsWord(s, i, <<"n","u","l","l">>) THEN Ok(i + 4, [t |-> "lit"])
        ELSE IF IsWord(s, i, <<"t","r","u","e">>) THEN Ok(i + 4, [t |-> "lit"])
        ELSE IF IsWord(s, i, <<"f","a","l","s","e">>) THEN Ok(i + 5, [t |-> "lit"])
        ELSE Fail

\* one value, then nothing but white space
from_str(s) ==
    LET v == ParseValue(s, 1)
    IN  IF v.ok /\ SkipWs(s, v.pos) > Len(s) THEN v ELSE Fail

\* Value::get(key): the member of an object (the last one of that name, as a
\* later member replaces an earlier one in the map); None otherwise
None == [t |-> "none"]

get(json, key) ==
    IF json.t # "obj" THEN None
    ELSE LET idx == {i \in 1..Len(json.v) : json.v[i].k = key}
         IN  IF idx = {} THEN None
             ELSE json.v[CHOOSE i \in idx : \A j \in idx : j <= i].v

\* .and_then(|v| v.as_str()) / .and_then(|v| v.as_u64())
as_str(v) == IF v.t = "str" THEN [some |-> TRUE, v |-> v.v] ELSE [some |-> FALSE]

as_u64(v) == IF v.t = "u64" THEN [some |-> TRUE, v |-> v.v] ELSE [some |-> FALSE]

(***************************************************************************)
(* The wire record.  The announcers and the responder build it with        *)
(* format!: the configured strings are pasted between the quotes as they   *)
(* are, with no escaping.                                                  *)
(***************************************************************************)
K_service == <<"s","e","r","v","i","c","e">>

K_ip == <<"i","p">>

K_port == <<"p","o","r","t">>

K_key == <<"k","e","y">>

Quoted(s) == <<"\"">> \o s \o <<"\"">>

\* "\n  \"<name>\": "
FieldHead(name) == <<"\n", " ", " ">> \o Quoted(name) \o <<":", " ">>

\* format!("{{\n  \"service\": \"{}\",\n  \"ip\": \"{}\",\n  \"port\": {},\n  \"key\": \"{}\"\n}}", ...)
format_message(service_name, local_ip, port, shared_key) ==
    <<"{">> \o FieldHead(K_service) \o Quoted(service_name) \o <<",">>
            \o FieldHead(K_ip) \o Quoted(local_ip) \o <<",">>
            \o FieldHead(K_port) \o to_string(port) \o <<",">>
            \o FieldHead(K_key) \o Quoted(shared_key)
            \o <<"\n", "}">>

(***************************************************************************)
(* What the environment may put on the wire, described field by field.     *)
(* A record descriptor gives each of the four fields as a string           *)
(* [t |-> "str", v], a number [t |-> "num", v] or nothing [t |-> "absent"];*)
(* Encode writes it as a JSON object (strings escaped).  A text descriptor *)
(* is written as it is: "json" for a JSON value that is no record and      *)
(* "garbage" for bytes that are no JSON.                                   *)
(***************************************************************************)
Str(v) == [t |-> "str", v |-> v]

Num(v) == [t |-> "num", v |-> v]

Absent == [t |-> "absent"]

Rec(service, ip, port, key) ==
    [kind |-> "record", service |-> service, ip |-> ip, port |-> port, key |-> key,
     pad |-> 0]

\* the same record written after n spaces (white space is free in JSON)
Padded(d, n) == [d EXCEPT !.pad = n]

RECURSIVE EscapeStr(_)
EscapeStr(s) ==
    IF s = <<>> THEN <<>>
    ELSE (IF Head(s) \in {"\"", "\\"} THEN <<"\\", Head(s)>> ELSE <<Head(s)>>)
         \o EscapeStr(Tail(s))

EncodeField(f) ==
    CASE f.t = "str" -> Quoted(EscapeStr(f.v))
      [] f.t = "num" -> IF f.v < 0 THEN <<"-">> \o to_string(0 - f.v) ELSE to_string(f.v)

RECURSIVE EncodeMembers(_)
EncodeMembers(ms) ==
    IF ms = <<>> THEN <<>>
    ELSE Quoted(ms[1][1]) \o <<":">> \o EncodeField(ms[1][2])
         \o (IF Len(ms) > 1 THEN <<",">> ELSE <<>>) \o EncodeMembers(Tail(ms))

Encode(d) ==
    LET all == <<<<K_service, d.service>>, <<K_ip, d.ip>>, <<K_port, d.port>>, <<K_key, d.key>>>>
        present == SelectSeq(all, LAMBDA m : m[2].t # "absent")
    IN  [i \in 1..d.pad |-> " "] \o <<"{">> \o EncodeMembers(present) \o <<"}">>

Payload(d) == IF d.kind = "record" THEN Encode(d) ELSE d.text

\* the classification of the descriptors (section 4.3 of the design)
IsComplete(d) ==
    /\ d.kind = "record"
    /\ d.service.t = "str" /\ d.ip.t = "str" /\ d.key.t = "str"
    /\ d.port.t = "num" /\ d.port.v >= 0

IsValid(d) == IsComplete(d) /\ d.key.v = expected_key

IsInvalidKey(d) == IsComplete(d) /\ d.key.v # expected_key

IsIncomplete(d) == (d.kind = "record" /\ ~IsComplete(d)) \/ d.kind = "json"

IsMalformed(d) == d.kind = "garbage"

\* the datagram fits the client's receive buffer
Fits(d) == Len(Payload(d)) <= BUF_SIZE

\* the endpoint a complete record names
Endpoint(d) == <<d.ip.v, d.port.v>>

WRONGKEY == <<"W","R","O","N","G","K","E","Y">>

IP5 == <<"1","0",".","0",".","0",".","5">>

IP6 == <<"1","0",".","0",".","0",".","6">>

\* white space enough to push a record past the end of the receive buffer
LongPad == BUF_SIZE

\* the descriptors the environment chooses from

\* the largest port of a UDP endpoint (u16)
MaxPort == 65535

\* a port no UDP endpoint has (as_u64 takes any unsigned 64-bit integer)
BigPort == MaxPort + 1

\* the second service that names the endpoint of the first one; it speaks
\* from another source address
Second == Rec(Str(<<"b">>), Str(IP5), Num(3000), Str(expected_key))

ValidPool ==
    { Rec(Str(<<"a">>), Str(IP5), Num(3000), Str(expected_key)),
      Rec(Str(<<"a">>), Str(IP6), Num(3000), Str(expected_key)),
      Rec(Str(<<>>), Str(IP6), Num(3000), Str(expected_key)),
      Rec(Str(<<"a">>), Str(IP5), Num(BigPort), Str(expected_key)),
      Padded(Rec(Str(<<"a">>), Str(IP6), Num(3000), Str(expected_key)), LongPad) }

InvalidKeyPool ==
    { Rec(Str(<<"a">>), Str(IP5), Num(3000), Str(WRONGKEY)),
      Padded(Rec(Str(<<"a">>), Str(IP5), Num(3000), Str(WRONGKEY)), LongPad) }

IncompletePool ==
    { Rec(Str(<<"a">>), Str(IP5), Num(3000), Absent),
      Rec(Str(<<"a">>), Str(IP5), Str(<<"3","0","0","0">>), Str(expected_key)),
      Rec(Absent, Str(IP6), Num(0 - 1), Str(WRONGKEY)),
      [kind |-> "json", text |-> <<"[","1","]">>] }

MalformedPool ==
    { [kind |-> "garbage", text |-> <<"h","i">>],
      [kind |-> "garbage", text |-> <<"{", BadByte>>] }

Pool == ValidPool \cup InvalidKeyPool \cup IncompletePool \cup MalformedPool

(***************************************************************************)
(* State                                                                   *)
(***************************************************************************)
VARIABLES
    \* the discovery client (examples/client_multi_discovery.rs, main)
    c_pc,             \* Idle, Bound, RequestSent, Listening, TimedOut, FatalError, SetupFailed
    c_result,         \* what main returned: "running", "Ok" or "Err"
    servers,          \* HashMap<String, ServerInfo>
    invalid_servers,  \* the counter of line 34
    message,          \* the text of the datagram read last
    stdout,           \* the lines the receive loop printed, in order
    \* the announcer (udp_broadcast.rs, announce_server_limited)
    a_pc,             \* off, start, loop, sleep, returned, panicked (Limited);
                      \* p_start, p_send, p_sleep (Periodic)
    a_cfg,            \* its arguments and the address get_local_ip gave
    a_i,              \* the loop variable i
    a_trace,          \* what it did, in order: setup_err, send_ok, send_err, sleep
    \* the responders (udp_broadcast.rs, respond_to_discovery_requests)
    r_pc,             \* per responder: off, start, listening, panicked
    r_cfg,            \* per responder: its arguments and its local address
    r_trace,          \* per responder: what it did, in order
    \* the service process (udp_broadcast.rs, start_discovery_service)
    discovery_service,  \* the arguments of the call, <<>> when none was made
    \* the network and the history of the run
    net,              \* datagrams sent and not yet delivered
    received,         \* the datagrams recv_from returned to the client, in order
    \* the passive listener (examples/client_discovery.rs, main)
    l_pc,             \* off, start, listening, failed
    l_out,            \* the lines its loop printed, each with the datagram read
    \* the command processor (nlp.rs, NlpProcessor; callbacks.rs, CallbackManager)
    handlers,         \* CallbackManager.handlers: name -> handler
    p_result,         \* the last call of process: its arguments, what it returned
                      \* and the handlers it invoked; <<>> before it
    cb_results,       \* the last call of execute_callback: its context, the
                      \* handlers registered then, and what it returned
    executed          \* the handlers the last call invoked, in order

client_vars == <<c_pc, c_result, servers, invalid_servers, message, stdout>>

announcer_vars == <<a_pc, a_cfg, a_i, a_trace>>

responder_vars == <<r_pc, r_cfg, r_trace>>

listener_vars == <<l_pc, l_out>>

nlp_vars == <<handlers, p_result, cb_results, executed>>

vars == <<client_vars, announcer_vars, responder_vars, discovery_service, net, received,
          listener_vars, nlp_vars>>

BROADCAST == "255.255.255.255:8888"

CLIENT_ADDR == "10.0.0.2:50000"

Responders == {"r1", "r2"}

\* the address a responder's socket is bound to (0.0.0.0:8888 on its host)
ResponderAddr(r) == IF r = "r1" THEN "10.0.0.5:8888" ELSE "10.0.0.6:8888"

\* send_to(.., 255.255.255.255:8888): one copy for every host of the segment that
\* may listen on the discovery port, and the datagram itself for the record
Broadcast(payload, src) ==
    {[payload |-> payload, src |-> src, dst |-> BROADCAST]}
    \cup {[payload |-> payload, src |-> src, dst |-> ResponderAddr(r)] : r \in Responders}

Line(ev, id) == [ev |-> ev, id |-> id]

(***************************************************************************)
(* The discovery client                                                    *)
(***************************************************************************)
\* mutant of format_server_id: the identity leaves the ip out
format_server_id_PortOnly(ip, port) == to_string(port)

\* format!("{}:{}", ip, port)
format_server_id(ip, port) == ip \o <<":">> \o to_string(port)

\* mutant of insert: the map keeps the newest record only
insert_Single(map, k, v) == [x \in {k} |-> v]

\* HashMap::insert
insert(map, k, v) == [x \in DOMAIN map \cup {k} |-> IF x = k THEN v ELSE map[x]]

\* mutant of contains_key: every valid message is taken for a new endpoint
contains_key_Never(map, k) == FALSE

\* line 56: servers.contains_key(&server_id)
contains_key(map, k) == k \in DOMAIN map

\* lines 47-52: the four fields, all present and of the right type, or nothing
Fields(json) ==
    LET service == as_str(get(json, K_service))
        ip      == as_str(get(json, K_ip))
        port    == as_u64(get(json, K_port))
        key     == as_str(get(json, K_key))
    IN  IF service.some /\ ip.some /\ port.some /\ key.some
        THEN [some |-> TRUE, service |-> service.v, ip |-> ip.v, port |-> port.v, key |-> key.v]
        ELSE [some |-> FALSE]

\* mutant of KeyMatches: the key is not compared
KeyMatches_Any(key) == TRUE

\* line 53
KeyMatches(key) == key = expected_key

\* lines 45-52: the text is parsed and the four fields are taken from it
Decode(text) ==
    LET json == from_str(text)
    IN  IF json.ok THEN [ok |-> TRUE, f |-> Fields(json.val)] ELSE [ok |-> FALSE]

\* mutant of OnMessage: the endpoint is looked up before the key is compared
OnMessage_NoveltyFirst(cl, dec) ==
    IF ~dec.ok
        THEN [cl EXCEPT !.stdout = Append(@, Line("Non-JSON response", <<>>))]
        ELSE LET f == dec.f
             IN  IF ~f.some
                 THEN [cl EXCEPT !.stdout = Append(@, Line("Malformed response", <<>>))]
                 ELSE LET server_id == format_server_id(f.ip, f.port)
                      IN  IF contains_key(cl.servers, server_id)
                          THEN [cl EXCEPT
                                  !.stdout = Append(@, Line("Duplicate response", server_id))]
                          ELSE IF KeyMatches(f.key)
                          THEN [cl EXCEPT
                                  !.servers = insert(@, server_id,
                                      [service |-> f.service, ip |-> f.ip,
                                       port |-> f.port, key |-> f.key]),
                                  !.stdout = Append(@, Line("Server discovered", server_id))]
                          ELSE [cl EXCEPT !.invalid_servers = @ + 1,
                                          !.stdout = Append(@, Line("Invalid key", <<>>))]

\* lines 45-93: what one datagram, decoded as dec, does to the run.
\* cl is [servers, invalid_servers, stdout].
OnMessage(cl, dec) ==
    IF ~dec.ok
        THEN [cl EXCEPT !.stdout = Append(@, Line("Non-JSON response", <<>>))]
        ELSE LET f == dec.f
             IN  IF ~f.some
                 THEN [cl EXCEPT !.stdout = Append(@, Line("Malformed response", <<>>))]
                 ELSE IF KeyMatches(f.key)
                 THEN LET server_id == format_server_id(f.ip, f.port)
                      IN  IF ~contains_key(cl.servers, server_id)
                          THEN [cl EXCEPT
                                  !.servers = insert(@, server_id,
                                      [service |-> f.service, ip |-> f.ip,
                                       port |-> f.port, key |-> f.key]),
                                  !.stdout = Append(@, Line("Server discovered", server_id))]
                          ELSE [cl EXCEPT
                                  !.stdout = Append(@, Line("Duplicate response", server_id))]
                 ELSE [cl EXCEPT !.invalid_servers = @ + 1,
                                 !.stdout = Append(@, Line("Invalid key", <<>>))]

\* lines 20-22: bind, set_broadcast, set_read_timeout; each failure returns Err
ClientBind ==
    /\ c_pc = "Idle"
    /\ \/ c_pc' = "Bound" /\ c_result' = c_result
       \/ c_pc' = "SetupFailed" /\ c_result' = "Err"
    /\ UNCHANGED <<servers, invalid_servers, message, stdout, net, received>>
    /\ UNCHANGED <<announcer_vars, responder_vars, discovery_service, listener_vars, nlp_vars>>

\* lines 25-29: the request is broadcast once; a failure returns Err
ClientSendRequest ==
    /\ c_pc = "Bound"
    /\ \/ /\ c_pc' = "RequestSent"
          /\ c_result' = c_result
          /\ net' = net \cup Broadcast(discovery_message, CLIENT_ADDR)
       \/ /\ c_pc' = "SetupFailed"
          /\ c_result' = "Err"
          /\ net' = net
    /\ UNCHANGED <<servers, invalid_servers, message, stdout, received>>
    /\ UNCHANGED <<announcer_vars, responder_vars, discovery_service, listener_vars, nlp_vars>>

\* lines 32-39: the empty map, the counter at 0, into the loop
ClientListen ==
    /\ c_pc = "RequestSent"
    /\ c_pc' = "Listening"
    /\ servers' = <<>>
    /\ invalid_servers' = 0
    /\ UNCHANGED <<c_result, message, stdout, net, received>>
    /\ UNCHANGED <<announcer_vars, responder_vars, discovery_service, listener_vars, nlp_vars>>

\* the last n entries of a history
LastN(seq, n) == IF Len(seq) <= n THEN seq ELSE SubSeq(seq, Len(seq) - n + 1, Len(seq))

\* the host a source address belongs to
SourceIp(src) ==
    CASE src = "10.0.0.5:8888" -> IP5
      [] src = "10.0.0.6:8888" -> IP6
      [] OTHER -> <<"1","0",".","0",".","0",".","9">>

\* mutant of ClientRecv: a message that names another host than the one it
\* came from is dropped as unreadable
ClientRecv_SourceChecked(d, keep) ==
    /\ c_pc = "Listening"
    /\ LET text == from_utf8_lossy(Truncate(d.payload, BUF_SIZE))
           read == Decode(text)
           dec  == IF read.ok /\ read.f.some /\ read.f.ip # SourceIp(d.src)
                   THEN [ok |-> FALSE] ELSE read
           cl   == OnMessage([servers |-> servers, invalid_servers |-> invalid_servers,
                              stdout |-> stdout], dec)
       IN  /\ message' = text
           /\ servers' = cl.servers
           /\ invalid_servers' = cl.invalid_servers
           /\ stdout' = LastN(cl.stdout, keep)
           /\ received' = LastN(Append(received,
                                      [payload |-> d.payload, src |-> d.src,
                                       desc |-> d.desc, dec |-> dec]), keep)
    /\ UNCHANGED <<c_pc, c_result>>
    /\ UNCHANGED <<announcer_vars, responder_vars, discovery_service, listener_vars, nlp_vars>>

\* lines 40-94: recv_from returned Ok((amt, src)) with datagram d.  The two
\* histories keep their last `keep` entries; the history of the datagrams
\* notes with each one what the parser made of it.
ClientRecv(d, keep) ==
    /\ c_pc = "Listening"
    /\ LET text == from_utf8_lossy(Truncate(d.payload, BUF_SIZE))
           dec  == Decode(text)
           cl   == OnMessage([servers |-> servers, invalid_servers |-> invalid_servers,
                              stdout |-> stdout], dec)
       IN  /\ message' = text
           /\ servers' = cl.servers
           /\ invalid_servers' = cl.invalid_servers
           /\ stdout' = LastN(cl.stdout, keep)
           /\ received' = LastN(Append(received,
                                      [payload |-> d.payload, src |-> d.src,
                                       desc |-> d.desc, dec |-> dec]), keep)
    /\ UNCHANGED <<c_pc, c_result>>
    /\ UNCHANGED <<announcer_vars, responder_vars, discovery_service, listener_vars, nlp_vars>>

\* lines 97-99: the receive timed out
ClientTimeout ==
    /\ c_pc = "Listening"
    /\ c_pc' = "TimedOut"
    /\ UNCHANGED <<c_result, servers, invalid_servers, message, stdout, net, received>>
    /\ UNCHANGED <<announcer_vars, responder_vars, discovery_service, listener_vars, nlp_vars>>

\* mutant of ClientRecvError: after the error the receive is tried again
ClientRecvError_Retry ==
    /\ \/ /\ c_pc = "Listening"
          /\ c_pc' = "FatalError"
          /\ stdout' = Append(stdout, Line("Network error", <<>>))
       \/ /\ c_pc = "FatalError"
          /\ c_result = "running"
          /\ c_pc' = "Listening"
          /\ stdout' = stdout
    /\ UNCHANGED <<c_result, servers, invalid_servers, message, net, received>>
    /\ UNCHANGED <<announcer_vars, responder_vars, discovery_service, listener_vars, nlp_vars>>

\* lines 100-103: any other receive error is printed and ends the loop
ClientRecvError ==
    /\ c_pc = "Listening"
    /\ c_pc' = "FatalError"
    /\ stdout' = Append(stdout, Line("Network error", <<>>))
    /\ UNCHANGED <<c_result, servers, invalid_servers, message, net, received>>
    /\ UNCHANGED <<announcer_vars, responder_vars, discovery_service, listener_vars, nlp_vars>>

\* mutant of ResultAfterLoop: the two exits of the loop swapped
ResultAfterLoop_Swapped(pc) == IF pc = "TimedOut" THEN "Err" ELSE "Ok"

\* what main returns after the loop (lines 109-158, both exits of the loop)
ResultAfterLoop(pc) == "Ok"

\* lines 109-158: the summary, then Ok(())
ClientSummary ==
    /\ c_pc \in {"TimedOut", "FatalError"}
    /\ c_result = "running"
    /\ c_result' = ResultAfterLoop(c_pc)
    /\ UNCHANGED <<c_pc, servers, invalid_servers, message, stdout, net, received>>
    /\ UNCHANGED <<announcer_vars, responder_vars, discovery_service, listener_vars, nlp_vars>>

\* the orders in which HashMap::values may yield the records of a map
ValueOrders(map) ==
    {o \in [1..Cardinality(DOMAIN map) -> DOMAIN map] :
        \A i, j \in DOMAIN o : o[i] = o[j] => i = j}

\* mutant of or_insert_with: the entry is set to an empty Vec every time
or_insert_with_Always(groups, k) == insert(groups, k, <<>>)

\* line 128-129: entry(k).or_insert_with(Vec::new)
or_insert_with(groups, k) == IF contains_key(groups, k) THEN groups ELSE insert(groups, k, <<>>)

\* lines 127-132: the loop over servers.values(), taken in the given order;
\* a group is a Vec of references to records, a reference being written as
\* the record's key in the map
RECURSIVE GroupFold(_, _, _)
GroupFold(map, order, groups) ==
    IF order = <<>> THEN groups
    ELSE LET server == map[Head(order)]
             k      == server.service
         IN  GroupFold(map, Tail(order),
                       [or_insert_with(groups, k) EXCEPT ![k] = Append(@, Head(order))])

\* line 127: service_groups starts empty
service_groups(map, order) == GroupFold(map, order, <<>>)

\* the datagrams the environment may hand to the client: every descriptor of
\* the pool from one source, and the second service from another
EnvDatagrams ==
    {[payload |-> Payload(desc), src |-> "10.0.0.5:8888", desc |-> desc] : desc \in Pool}
    \cup {[payload |-> Payload(Second), src |-> "10.0.0.9:4000", desc |-> Second]}

\* the environment hands the client any of these datagrams
EnvDeliver ==
    /\ Len(received) < MaxRecv
    /\ \E d \in EnvDatagrams : ClientRecv(d, MaxRecv)
    /\ net' = net

ClientInit ==
    /\ c_pc = "Idle"
    /\ c_result = "running"
    /\ servers = <<>>
    /\ invalid_servers = 0
    /\ message = <<>>
    /\ stdout = <<>>

AnnouncerOff ==
    /\ a_pc = "off"
    /\ a_cfg = <<>>
    /\ a_i = 0
    /\ a_trace = <<>>

RespondersOff ==
    /\ r_pc = [r \in Responders |-> "off"]
    /\ r_cfg = [r \in Responders |-> <<>>]
    /\ r_trace = [r \in Responders |-> <<>>]

ListenerOff ==
    /\ l_pc = "off"
    /\ l_out = <<>>

ProcessorOff ==
    /\ handlers = <<>>
    /\ p_result = <<>>
    /\ cb_results = <<>>
    /\ executed = <<>>

\* one discovery run, fed by the environment
Init ==
    /\ ClientInit
    /\ AnnouncerOff
    /\ RespondersOff
    /\ discovery_service = <<>>
    /\ ListenerOff
    /\ ProcessorOff
    /\ net = {}
    /\ received = <<>>

Next ==
    \/ ClientBind
    \/ ClientSendRequest
    \/ ClientListen
    \/ EnvDeliver
    \/ ClientTimeout
    \/ ClientRecvError
    \/ ClientSummary

Spec == Init /\ [][Next]_vars

\* An environment that never falls silent: any datagram at any time.  So that
\* an unending run has finitely many states, the histories keep their last
\* HistoryKept entries and invalid-key messages stop once the counter has
\* reached MaxRecv.
EnvDeliverForever ==
    /\ \E d \in EnvDatagrams :
          /\ IsInvalidKey(d.desc) => invalid_servers < MaxRecv
          /\ ClientRecv(d, HistoryKept)
    /\ net' = net

NextLive ==
    \/ ClientBind
    \/ ClientSendRequest
    \/ ClientListen
    \/ EnvDeliverForever
    \/ ClientTimeout
    \/ ClientRecvError
    \/ ClientSummary

\* The client's thread always runs on: a recv_from that can return (with a
\* datagram, a timeout or an error) does return.  Which of them it returns is
\* the environment's choice.
SpecLive == Init /\ [][NextLive]_vars /\ WF_vars(NextLive)

(***************************************************************************)
(* The Limited announcer (udp_broadcast.rs, announce_server_limited)       *)
(***************************************************************************)
LOOPBACK == <<"1","2","7",".","0",".","0",".","1">>

\* the announcer's socket: an ephemeral port of the service's host
ANNOUNCER_ADDR == "10.0.0.5:40000"

\* get_local_ip().unwrap_or_else(|| "127.0.0.1"): the first qualifying
\* interface address of the host, or the loopback address when there is none
LocalIps(real) == {real, LOOPBACK}

\* the arguments the announcer is started with
AnnouncerConfigs ==
    [port : {3000}, service_name : {<<"a">>}, shared_key : {expected_key},
     interval_secs : {0, 1, 30}, max_count : 0..MaxCount,
     local_ip : LocalIps(IP5)]

\* mutant of InRange: the loop runs once more
InRange_OneMore(i, max_count) == i <= max_count + 1

\* line 95: for i in 1..=max_count
InRange(i, max_count) == i <= max_count

\* mutant of SleepsAfter: a sleep after the last send as well
SleepsAfter_Always(i, max_count) == i <= max_count

\* line 101: if i < max_count
SleepsAfter(i, max_count) == i < max_count

\* mutant of expect: a failed setup is passed over
expect_Ignored(ok, next) == next

\* Result::expect (and unwrap): the thread goes on when the call returned Ok
\* and panics when it returned Err
expect(ok, next) == IF ok THEN next ELSE "panicked"

\* lines 82-88: bind, set_broadcast and set_write_timeout panic on failure
LimitedSetup ==
    /\ a_pc = "start"
    /\ \E ok \in BOOLEAN :
          /\ a_pc' = expect(ok, "loop")
          /\ a_i' = IF ok THEN 1 ELSE a_i
          /\ a_trace' = IF ok THEN a_trace ELSE Append(a_trace, "setup_err")
    /\ UNCHANGED <<a_cfg, net, received>>
    /\ UNCHANGED <<client_vars, responder_vars, discovery_service, listener_vars, nlp_vars>>

\* lines 95-103: one iteration up to its sleep; the send may fail
LimitedSend ==
    /\ a_pc = "loop"
    /\ InRange(a_i, a_cfg.max_count)
    /\ LET announcement == format_message(a_cfg.service_name, a_cfg.local_ip,
                                          a_cfg.port, a_cfg.shared_key)
       IN  \/ /\ net' = net \cup Broadcast(announcement, ANNOUNCER_ADDR)
              /\ a_trace' = Append(a_trace, "send_ok")
           \/ /\ net' = net
              /\ a_trace' = Append(a_trace, "send_err")
    /\ IF SleepsAfter(a_i, a_cfg.max_count)
       THEN a_pc' = "sleep" /\ a_i' = a_i
       ELSE a_pc' = "loop" /\ a_i' = a_i + 1
    /\ UNCHANGED <<a_cfg, received>>
    /\ UNCHANGED <<client_vars, responder_vars, discovery_service, listener_vars, nlp_vars>>

\* line 102: thread::sleep(interval_secs), then the next iteration
LimitedSleep ==
    /\ a_pc = "sleep"
    /\ a_trace' = Append(a_trace, "sleep")
    /\ a_pc' = "loop"
    /\ a_i' = a_i + 1
    /\ UNCHANGED <<a_cfg, net, received>>
    /\ UNCHANGED <<client_vars, responder_vars, discovery_service, listener_vars, nlp_vars>>

\* lines 104-106: the range is exhausted; the function returns
LimitedReturn ==
    /\ a_pc = "loop"
    /\ ~InRange(a_i, a_cfg.max_count)
    /\ a_pc' = "returned"
    /\ UNCHANGED <<a_cfg, a_i, a_trace, net, received>>
    /\ UNCHANGED <<client_vars, responder_vars, discovery_service, listener_vars, nlp_vars>>

ClientOff ==
    /\ c_pc = "off"
    /\ c_result = "running"
    /\ servers = <<>>
    /\ invalid_servers = 0
    /\ message = <<>>
    /\ stdout = <<>>

\* start_discovery_service(.., Limited(interval, count)) for any arguments
InitLimited ==
    /\ ClientOff
    /\ RespondersOff
    /\ discovery_service = <<>>
    /\ ListenerOff
    /\ ProcessorOff
    /\ a_pc = "start"
    /\ a_cfg \in AnnouncerConfigs
    /\ a_i = 0
    /\ a_trace = <<>>
    /\ net = {}
    /\ received = <<>>

NextLimited ==
    \/ LimitedSetup
    \/ LimitedSend
    \/ LimitedSleep
    \/ LimitedReturn

SpecLimited == InitLimited /\ [][NextLimited]_vars

(***************************************************************************)
(* The responder (udp_broadcast.rs, respond_to_discovery_requests)         *)
(***************************************************************************)
\* the address of a responder's host
RealIp(r) == IF r = "r1" THEN IP5 ELSE IP6

\* the arguments a responder is started with, and what get_local_ip gives
ResponderConfigs(r) ==
    [port : {3000}, service_name : {<<"a">>, <<"a", "\"", "b">>},
     shared_key : {expected_key, WRONGKEY}, local_ip : LocalIps(RealIp(r))]

\* mutant of IsDiscoveryRequest: every datagram is taken for a request
IsDiscoveryRequest_Always(request) == TRUE

\* mutant of IsDiscoveryRequest: the lower-case spelling is not looked for
IsDiscoveryRequest_UpperOnly(request) == contains(request, discovery_message)

\* line 130: request.contains("DISCOVER") || request.contains("discover")
IsDiscoveryRequest(request) ==
    \/ contains(request, discovery_message)
    \/ contains(request, <<"d","i","s","c","o","v","e","r">>)

\* lines 116-119
Response(r) ==
    format_message(r_cfg[r].service_name, r_cfg[r].local_ip, r_cfg[r].port,
                   r_cfg[r].shared_key)

Log(r, ev, to) == [r_trace EXCEPT ![r] = Append(@, [ev |-> ev, to |-> to])]

\* lines 110-114: the bind of port 8888 panics on failure
ResponderSetup(r) ==
    /\ r_pc[r] = "start"
    /\ \E ok \in BOOLEAN :
          /\ r_pc' = [r_pc EXCEPT ![r] = expect(ok, "listening")]
          /\ r_trace' = IF ok THEN r_trace ELSE Log(r, "setup_err", "")
    /\ UNCHANGED <<r_cfg, net, received>>
    /\ UNCHANGED <<client_vars, announcer_vars, discovery_service, listener_vars, nlp_vars>>

\* lines 124-138: recv_from returned datagram m; a request is answered to
\* its source (the send may fail), anything else is ignored
ResponderRecv(r, m) ==
    /\ r_pc[r] = "listening"
    /\ m \in net
    /\ m.dst = ResponderAddr(r)
    /\ Len(r_trace[r]) < MaxTrace
    /\ LET request == from_utf8_lossy(Truncate(m.payload, BUF_SIZE))
       IN  IF IsDiscoveryRequest(request)
           THEN \/ /\ net' = (net \ {m}) \cup
                               {[payload |-> Response(r), src |-> ResponderAddr(r),
                                 dst |-> m.src]}
                   /\ r_trace' = Log(r, "sent", m.src)
                \/ /\ net' = net \ {m}
                   /\ r_trace' = Log(r, "send_err", m.src)
           ELSE /\ net' = net \ {m}
                /\ r_trace' = Log(r, "ignored", m.src)
    /\ UNCHANGED <<r_pc, r_cfg, received>>
    /\ UNCHANGED <<client_vars, announcer_vars, discovery_service, listener_vars, nlp_vars>>

\* mutant of ResponderRecvError: the error ends the loop
ResponderRecvError_Stops(r) ==
    /\ r_pc[r] = "listening"
    /\ Len(r_trace[r]) < MaxTrace
    /\ r_trace' = Log(r, "recv_err", "")
    /\ r_pc' = [r_pc EXCEPT ![r] = "stopped"]
    /\ UNCHANGED <<r_cfg, net, received>>
    /\ UNCHANGED <<client_vars, announcer_vars, discovery_service, listener_vars, nlp_vars>>

\* lines 139-141: a receive error is printed and the loop goes on
ResponderRecvError(r) ==
    /\ r_pc[r] = "listening"
    /\ Len(r_trace[r]) < MaxTrace
    /\ r_trace' = Log(r, "recv_err", "")
    /\ UNCHANGED <<r_pc, r_cfg, net, received>>
    /\ UNCHANGED <<client_vars, announcer_vars, discovery_service, listener_vars, nlp_vars>>

(***************************************************************************)
(* The network between the client and the responders                       *)
(***************************************************************************)
\* UDP may lose any datagram
NetLose ==
    /\ \E m \in net : m.dst # BROADCAST /\ net' = net \ {m}
    /\ UNCHANGED <<client_vars, announcer_vars, responder_vars, received, discovery_service, listener_vars, nlp_vars>>

\* a datagram addressed to the client's socket reaches its recv_from
NetDeliverClient ==
    /\ Len(received) < MaxRecv
    /\ \E m \in net :
          /\ m.dst = CLIENT_ADDR
          /\ ClientRecv([payload |-> m.payload, src |-> m.src, desc |-> [kind |-> "wire"]],
                        MaxRecv)
          /\ net' = net \ {m}

ResponderStep == \E r \in Responders : ResponderSetup(r) \/ ResponderRecvError(r)

ResponderAnswer == \E r \in Responders : \E m \in net : ResponderRecv(r, m)

\* one client and the responders of the segment, each started with any
\* arguments
InitNet ==
    /\ ClientInit
    /\ AnnouncerOff
    /\ discovery_service = <<>>
    /\ ListenerOff
    /\ ProcessorOff
    /\ r_pc = [r \in Responders |-> "start"]
    /\ r_cfg \in [Responders -> UNION {ResponderConfigs(r) : r \in Responders}]
    /\ \A r \in Responders : r_cfg[r] \in ResponderConfigs(r)
    /\ r_trace = [r \in Responders |-> <<>>]
    /\ net = {}
    /\ received = <<>>

NextNet ==
    \/ ClientBind
    \/ ClientSendRequest
    \/ ClientListen
    \/ NetDeliverClient
    \/ ClientTimeout
    \/ ClientRecvError
    \/ ClientSummary
    \/ ResponderStep
    \/ ResponderAnswer
    \/ NetLose

SpecNet == InitNet /\ [][NextNet]_vars

(***************************************************************************)
(* The Periodic announcer (udp_broadcast.rs, announce_server_periodic)     *)
(***************************************************************************)
\* the arguments the Periodic announcer is started with
PeriodicConfigs ==
    [port : {3000}, service_name : {<<"a">>, <<"a", "\"", "b">>},
     shared_key : {expected_key, WRONGKEY}, interval_secs : {0, 1, 30},
     local_ip : LocalIps(IP5)]

\* lines 53-60: bind, set_broadcast and set_write_timeout panic on failure
PeriodicSetup ==
    /\ a_pc = "p_start"
    /\ \E ok \in BOOLEAN :
          /\ a_pc' = expect(ok, "p_send")
          /\ a_trace' = IF ok THEN a_trace ELSE Append(a_trace, "setup_err")
    /\ UNCHANGED <<a_cfg, a_i, net, received>>
    /\ UNCHANGED <<client_vars, responder_vars, discovery_service, listener_vars, nlp_vars>>

\* mutant of PeriodicSend: a failed send ends the announcer
PeriodicSend_FailStops ==
    /\ a_pc = "p_send"
    /\ LET announcement == format_message(a_cfg.service_name, a_cfg.local_ip,
                                          a_cfg.port, a_cfg.shared_key)
       IN  \/ /\ net' = net \cup Broadcast(announcement, ANNOUNCER_ADDR)
              /\ a_trace' = LastN(Append(a_trace, "send_ok"), MaxTrace + 1)
              /\ a_pc' = "p_sleep"
           \/ /\ net' = net
              /\ a_trace' = LastN(Append(a_trace, "send_err"), MaxTrace + 1)
              /\ a_pc' = "returned"
    /\ UNCHANGED <<a_cfg, a_i, received>>
    /\ UNCHANGED <<client_vars, responder_vars, discovery_service, listener_vars, nlp_vars>>

\* lines 70-73: the announcement is broadcast; a failure is printed.  The
\* history keeps its last MaxTrace + 1 entries.
PeriodicSend ==
    /\ a_pc = "p_send"
    /\ LET announcement == format_message(a_cfg.service_name, a_cfg.local_ip,
                                          a_cfg.port, a_cfg.shared_key)
       IN  \/ /\ net' = net \cup Broadcast(announcement, ANNOUNCER_ADDR)
              /\ a_trace' = LastN(Append(a_trace, "send_ok"), MaxTrace + 1)
           \/ /\ net' = net
              /\ a_trace' = LastN(Append(a_trace, "send_err"), MaxTrace + 1)
    /\ a_pc' = "p_sleep"
    /\ UNCHANGED <<a_cfg, a_i, received>>
    /\ UNCHANGED <<client_vars, responder_vars, discovery_service, listener_vars, nlp_vars>>

\* line 76: thread::sleep(interval_secs), then the loop starts over
PeriodicSleep ==
    /\ a_pc = "p_sleep"
    /\ a_trace' = LastN(Append(a_trace, "sleep"), MaxTrace + 1)
    /\ a_pc' = "p_send"
    /\ UNCHANGED <<a_cfg, a_i, net, received>>
    /\ UNCHANGED <<client_vars, responder_vars, discovery_service, listener_vars, nlp_vars>>

\* announce_server_periodic(port, service_name, shared_key, interval_secs)
\* for any arguments
InitPeriodic ==
    /\ ClientOff
    /\ RespondersOff
    /\ discovery_service = <<>>
    /\ ListenerOff
    /\ ProcessorOff
    /\ a_pc = "p_start"
    /\ a_cfg \in PeriodicConfigs
    /\ a_i = 0
    /\ a_trace = <<>>
    /\ net = {}
    /\ received = <<>>

NextPeriodic ==
    \/ PeriodicSetup
    \/ PeriodicSend
    \/ PeriodicSleep

\* The announcer's thread always runs on: send_to returns (the write timeout
\* is 1 s, line 60) and so does sleep.
SpecPeriodic == InitPeriodic /\ [][NextPeriodic]_vars /\ WF_vars(NextPeriodic)

(***************************************************************************)
(* The service process (udp_broadcast.rs, start_discovery_service)         *)
(***************************************************************************)
\* the responder slot the service process uses when it answers requests
SERVICE == "r1"

\* AnnouncementMode: Periodic(u64), OnRequest, Limited(u64, u32)
Modes ==
    { [kind |-> "Periodic", interval |-> 30],
      [kind |-> "OnRequest"],
      [kind |-> "Limited", interval |-> 1, count |-> 0],
      [kind |-> "Limited", interval |-> 1, count |-> 2] }

\* the arguments start_discovery_service is called with
ServiceCalls ==
    [port : {3000}, service_name : {<<"a">>, <<"a", "\"", "b">>},
     shared_key : {expected_key, WRONGKEY}, mode : Modes]

\* mutant of RolesOf: an announcing service answers requests as well
RolesOf_AlsoResponds(mode) ==
    CASE mode.kind = "Periodic"  -> {"announce_server_periodic", "respond_to_discovery_requests"}
      [] mode.kind = "OnRequest" -> {"respond_to_discovery_requests"}
      [] mode.kind = "Limited"   -> {"announce_server_limited", "respond_to_discovery_requests"}

\* lines 32-42: the functions the match on the mode calls
RolesOf(mode) ==
    CASE mode.kind = "Periodic"  -> {"announce_server_periodic"}
      [] mode.kind = "OnRequest" -> {"respond_to_discovery_requests"}
      [] mode.kind = "Limited"   -> {"announce_server_limited"}

\* lines 31-43, and the first line of the function called: get_local_ip
\* gives the host's address or nothing
StartService ==
    /\ discovery_service # <<>>
    /\ a_pc = "off"
    /\ r_pc[SERVICE] = "off"
    /\ LET call  == discovery_service
           roles == RolesOf(call.mode)
       IN  \E local_ip \in LocalIps(RealIp(SERVICE)) :
              /\ a_pc' = IF "announce_server_periodic" \in roles THEN "p_start"
                         ELSE IF "announce_server_limited" \in roles THEN "start"
                         ELSE a_pc
              /\ a_cfg' = IF "announce_server_periodic" \in roles
                          THEN [port |-> call.port, service_name |-> call.service_name,
                                shared_key |-> call.shared_key,
                                interval_secs |-> call.mode.interval,
                                local_ip |-> local_ip]
                          ELSE IF "announce_server_limited" \in roles
                          THEN [port |-> call.port, service_name |-> call.service_name,
                                shared_key |-> call.shared_key,
                                interval_secs |-> call.mode.interval,
                                max_count |-> call.mode.count,
                                local_ip |-> local_ip]
                          ELSE a_cfg
              /\ r_pc' = IF "respond_to_discovery_requests" \in roles
                         THEN [r_pc EXCEPT ![SERVICE] = "start"] ELSE r_pc
              /\ r_cfg' = IF "respond_to_discovery_requests" \in roles
                          THEN [r_cfg EXCEPT ![SERVICE] =
                                  [port |-> call.port, service_name |-> call.service_name,
                                   shared_key |-> call.shared_key, local_ip |-> local_ip]]
                          ELSE r_cfg
    /\ UNCHANGED <<a_i, a_trace, r_trace, net, received, discovery_service, listener_vars, nlp_vars>>
    /\ UNCHANGED client_vars

\* the datagrams other hosts send to port 8888 of the service's host: some
\* text, a word, some more text
Request(pre, word, post) == [pre |-> pre, word |-> word, post |-> post]

RequestText(q) == q.pre \o q.word \o q.post

Requests ==
    { Request(<<>>, discovery_message, <<>>),
      Request(<<"x">>, <<"d","i","s","c","o","v","e","r">>, <<"y">>),
      Request(<<>>, <<"D","i","s","c","o","v","e","r">>, <<>>),
      Request(<<>>, <<"h","e","l","l","o">>, <<>>),
      Request([i \in 1..LongPad |-> " "], discovery_message, <<>>) }

OTHER_ADDR == "10.0.0.3:41000"

\* another host sends one of them (one at a time)
EnvRequest ==
    /\ Len(r_trace[SERVICE]) < MaxTrace
    /\ \A m \in net : m.src # OTHER_ADDR
    /\ \E q \in Requests :
          net' = net \cup {[payload |-> RequestText(q), src |-> OTHER_ADDR,
                            dst |-> ResponderAddr(SERVICE)]}
    /\ UNCHANGED <<client_vars, announcer_vars, responder_vars, received,
                   discovery_service, listener_vars, nlp_vars>>

\* a service started in any mode with any arguments, a client, and other
\* hosts of the segment; no datagram is lost
InitService ==
    /\ ClientInit
    /\ AnnouncerOff
    /\ RespondersOff
    /\ discovery_service \in ServiceCalls
    /\ ListenerOff
    /\ ProcessorOff
    /\ net = {}
    /\ received = <<>>

NextService ==
    \/ StartService
    \/ PeriodicSetup
    \/ PeriodicSend
    \/ PeriodicSleep
    \/ LimitedSetup
    \/ LimitedSend
    \/ LimitedSleep
    \/ LimitedReturn
    \/ ResponderStep
    \/ ResponderAnswer
    \/ EnvRequest
    \/ ClientBind
    \/ ClientSendRequest
    \/ ClientListen
    \/ NetDeliverClient
    \/ ClientTimeout
    \/ ClientRecvError
    \/ ClientSummary

SpecService == InitService /\ [][NextService]_vars

(***************************************************************************)
(* A segment with an announcing service and an answering service           *)
(***************************************************************************)
DISCOVERY_NAME == <<"d","i","s","c","o","v","e","r","y">>

QUOTED_NAME == <<"a", "\"", "b">>

\* the announcing service: Limited(1, 2) on the host of r1
SegmentAnnouncers ==
    [port : {3000}, service_name : {<<"a">>, QUOTED_NAME, DISCOVERY_NAME},
     shared_key : {expected_key}, interval_secs : {1}, max_count : {2},
     local_ip : {IP5}]

\* the answering service
SegmentResponders(r) ==
    [port : {3000}, service_name : {<<"a">>, QUOTED_NAME},
     shared_key : {expected_key}, local_ip : {RealIp(r)}]

\* a client on another host sends its request to the answering service
SegmentRequest ==
    /\ \E r \in Responders :
          /\ r_pc[r] # "off"
          /\ Len(r_trace[r]) < MaxTrace
          /\ \A m \in net : ~(m.src = OTHER_ADDR /\ m.dst = ResponderAddr(r))
          /\ net' = net \cup {[payload |-> discovery_message, src |-> OTHER_ADDR,
                               dst |-> ResponderAddr(r)]}
    /\ UNCHANGED <<client_vars, announcer_vars, responder_vars, received,
                   discovery_service, listener_vars, nlp_vars>>

InitSegment ==
    /\ ClientOff
    /\ discovery_service = <<>>
    /\ ListenerOff
    /\ ProcessorOff
    /\ a_pc = "start"
    /\ a_cfg \in SegmentAnnouncers
    /\ a_i = 0
    /\ a_trace = <<>>
    /\ r_pc = [r \in Responders |-> IF r = SERVICE THEN "start" ELSE "off"]
    /\ \E cfg \in SegmentResponders(SERVICE) :
          r_cfg = [r \in Responders |-> IF r = SERVICE THEN cfg ELSE <<>>]
    /\ r_trace = [r \in Responders |-> <<>>]
    /\ net = {}
    /\ received = <<>>

NextSegment ==
    \/ LimitedSetup
    \/ LimitedSend
    \/ LimitedSleep
    \/ LimitedReturn
    \/ ResponderStep
    \/ ResponderAnswer
    \/ SegmentRequest

SpecSegment == InitSegment /\ [][NextSegment]_vars

(***************************************************************************)
(* The passive listener (examples/client_discovery.rs, main)               *)
(***************************************************************************)
\* lines 25-50: the line the listener prints for a datagram decoded as dec
ListenerClassify(dec) ==
    IF ~dec.ok THEN "Failed to parse JSON"
    ELSE IF ~dec.f.some THEN "Incomplete announcement"
    ELSE IF KeyMatches(dec.f.key) THEN "Valid server discovered"
    ELSE "Invalid key received"

\* lines 11-12: bind(0.0.0.0:8888)? and set_broadcast(true)?: a failure
\* makes main return the error
ListenerSetup ==
    /\ l_pc = "start"
    /\ \E ok \in BOOLEAN : l_pc' = IF ok THEN "listening" ELSE "failed"
    /\ UNCHANGED <<l_out, net, received, nlp_vars>>
    /\ UNCHANGED <<client_vars, announcer_vars, responder_vars, discovery_service>>

\* lines 19-52: recv_from returned Ok((amt, src)) with datagram d; the
\* listener prints what it makes of it and goes round the loop
ListenerRecv(d) ==
    /\ l_pc = "listening"
    /\ Len(l_out) < MaxTrace
    /\ LET text == from_utf8_lossy(Truncate(d.payload, BUF_SIZE))
           ev   == ListenerClassify(Decode(text))
       IN  /\ l_out' = Append(l_out, [ev |-> ev, src |-> d.src, desc |-> d.desc])
           /\ l_pc' = l_pc
    /\ UNCHANGED <<net, received, nlp_vars>>
    /\ UNCHANGED <<client_vars, announcer_vars, responder_vars, discovery_service>>

\* mutant of ListenerRecvError: the error ends the loop
ListenerRecvError_Returns ==
    /\ l_pc = "listening"
    /\ Len(l_out) < MaxTrace
    /\ l_out' = Append(l_out, [ev |-> "Error receiving data", src |-> "", desc |-> <<>>])
    /\ l_pc' = "failed"
    /\ UNCHANGED <<net, received, nlp_vars>>
    /\ UNCHANGED <<client_vars, announcer_vars, responder_vars, discovery_service>>

\* lines 53-55: recv_from returned Err(e); it is printed and the loop goes on
ListenerRecvError ==
    /\ l_pc = "listening"
    /\ Len(l_out) < MaxTrace
    /\ l_out' = Append(l_out, [ev |-> "Error receiving data", src |-> "", desc |-> <<>>])
    /\ l_pc' = l_pc
    /\ UNCHANGED <<net, received, nlp_vars>>
    /\ UNCHANGED <<client_vars, announcer_vars, responder_vars, discovery_service>>

\* the address of the listener's socket
LISTENER_ADDR == "10.0.0.7:8888"

\* the broadcasts the environment lets the listener hear: a valid record, one
\* with another key, one without a key, and bytes that are no JSON
ListenerDatagrams ==
    {[payload |-> Payload(desc), src |-> ANNOUNCER_ADDR, desc |-> desc] :
        desc \in { Rec(Str(<<"a">>), Str(IP5), Num(3000), Str(expected_key)),
                   Rec(Str(<<"a">>), Str(IP5), Num(3000), Str(WRONGKEY)),
                   Rec(Str(<<"a">>), Str(IP5), Num(3000), Absent),
                   [kind |-> "garbage", text |-> <<"h","i">>] }}

ListenerHear == \E d \in ListenerDatagrams : ListenerRecv(d)

\* a listener and an answering service on one segment, and a client on
\* another host that sends requests to the service
InitListener ==
    /\ ClientOff
    /\ AnnouncerOff
    /\ discovery_service = <<>>
    /\ ProcessorOff
    /\ l_pc = "start"
    /\ l_out = <<>>
    /\ r_pc = [r \in Responders |-> IF r = SERVICE THEN "start" ELSE "off"]
    /\ \E cfg \in SegmentResponders(SERVICE) :
          r_cfg = [r \in Responders |-> IF r = SERVICE THEN cfg ELSE <<>>]
    /\ r_trace = [r \in Responders |-> <<>>]
    /\ net = {}
    /\ received = <<>>

NextListener ==
    \/ ListenerSetup
    \/ ListenerHear
    \/ ListenerRecvError
    \/ ResponderStep
    \/ ResponderAnswer
    \/ SegmentRequest

SpecListener == InitListener /\ [][NextListener]_vars

(***************************************************************************)
(* Reading the history of a run                                            *)
(***************************************************************************)
\* the integer counters the run keeps beside the record map (line 34 is the
\* only one the program declares)
RunCounters == [invalid_servers |-> invalid_servers]

\* this step is the receipt of datagram d
Receives(d) ==
    /\ Len(received') = Len(received) + 1
    /\ SubSeq(received', 1, Len(received)) = received
    /\ LET last == received'[Len(received')]
       IN  last.payload = d.payload /\ last.src = d.src /\ last.desc = d.desc

\* the messages received so far that fitted the receive buffer
GotWhole == {i \in 1..Len(received) : Fits(received[i].desc)}

\* the valid messages received whole so far
GotValid == {i \in GotWhole : IsValid(received[i].desc)}

\* the invalid-key messages received whole so far
GotInvalidKey == {i \in GotWhole : IsInvalidKey(received[i].desc)}

\* the lines of one kind printed so far
Lines(ev) == {i \in 1..Len(stdout) : stdout[i].ev = ev}

\* the endpoints named by the valid messages received so far
ValidEndpoints == {Endpoint(received[i].desc) : i \in GotValid}

\* the valid messages received so far that name endpoint e
ValidFrom(e) == {i \in GotValid : Endpoint(received[i].desc) = e}

\* the records the map holds for endpoint e
RecordsOf(e) == {id \in DOMAIN servers : servers[id].ip = e[1] /\ servers[id].port = e[2]}

(***************************************************************************)
(* Claims about one discovery run (specification Spec)                     *)
(***************************************************************************)
\* Not a claim of its own: the part of C1 that the code keeps.  The map never
\* holds two records of one endpoint, every key is the "ip:port" of its
\* record, and N valid messages naming an endpoint, each within the receive
\* buffer, leave 1 record and N-1 "Duplicate response" lines for it.
EndpointsUnique ==
    /\ \A id \in DOMAIN servers : id = format_server_id(servers[id].ip, servers[id].port)
    /\ \A e \in ValidEndpoints :
          /\ Cardinality(RecordsOf(e)) = 1
          /\ Cardinality({i \in Lines("Duplicate response") :
                             stdout[i].id = format_server_id(e[1], e[2])})
               = Cardinality(ValidFrom(e)) - 1

\* C1: the record map never holds two entries of one endpoint; N >= 2 valid
\* messages naming an endpoint leave exactly 1 record and N-1 duplicate
\* events, and each duplicate event increases a duplicate counter of the run
\* and changes nothing else.
C1_DuplicatesCounted ==
    /\ []EndpointsUnique
    /\ [][\A d \in EnvDatagrams :
            (/\ Receives(d)
             /\ IsValid(d.desc) /\ Fits(d.desc)
             /\ RecordsOf(Endpoint(d.desc)) # {})
            => /\ servers' = servers
               /\ \E c \in DOMAIN RunCounters : RunCounters'[c] = RunCounters[c] + 1]_vars

C3_MalformedCounted ==
    [][\A d \in EnvDatagrams :
         (Receives(d) /\ IsMalformed(d.desc))
         => /\ servers' = servers
            /\ c_pc' = "Listening"
            /\ \E c \in DOMAIN RunCounters : RunCounters'[c] = RunCounters[c] + 1]_vars

\* C4: a message that parses but lacks a field, or carries one of the wrong
\* type, creates no record and increases the invalid counter by exactly 1.
C4_IncompleteCounted ==
    [][\A d \in EnvDatagrams :
         (Receives(d) /\ IsIncomplete(d.desc))
         => /\ servers' = servers
            /\ invalid_servers' = invalid_servers + 1]_vars

\* C5: when the run has timed out and all it received were valid messages of
\* at most BUF_SIZE bytes with a port in 0..65535, naming k distinct
\* endpoints, the map holds exactly k records, one per endpoint with that
\* endpoint's ip and port and a service name the endpoint sent, the invalid
\* counter is 0 and nothing was reported as malformed.
C5_AllValidAllFound ==
    (/\ c_pc = "TimedOut"
     /\ \A i \in 1..Len(received) :
           /\ IsValid(received[i].desc) /\ received[i].desc.port.v \in 0..65535
           /\ Fits(received[i].desc))
    => /\ Cardinality(DOMAIN servers) = Cardinality(ValidEndpoints)
       /\ \A e \in ValidEndpoints :
             \E id \in DOMAIN servers :
                /\ servers[id].ip = e[1]
                /\ servers[id].port = e[2]
                /\ \E i \in ValidFrom(e) : servers[id].service = received[i].desc.service.v
       /\ invalid_servers = 0
       /\ Lines("Non-JSON response") = {}
       /\ Lines("Malformed response") = {}

\* C5 witness: a run that returned after two distinct endpoints answered, one
\* of them twice, every message within the receive buffer.
C5_Witness ==
    /\ c_pc = "TimedOut"
    /\ c_result = "Ok"
    /\ Len(received) = 3
    /\ GotValid = 1..Len(received)
    /\ Cardinality(ValidEndpoints) = 2

\* C5 as stated, for valid messages whatever their length: k endpoints give k
\* records and nothing is reported as unparseable.
C5_AnyLength ==
    (/\ c_pc = "TimedOut"
     /\ \A i \in 1..Len(received) :
           IsValid(received[i].desc) /\ received[i].desc.port.v \in 0..65535)
    => /\ Cardinality(DOMAIN servers)
            = Cardinality({Endpoint(received[i].desc) : i \in 1..Len(received)})
       /\ invalid_servers = 0
       /\ Lines("Non-JSON response") = {}
       /\ Lines("Malformed response") = {}

\* C7: a run whose receive timed out before any datagram arrived returns Ok
\* with an empty record map and a zero counter.
C7_EmptyTimeoutIsSuccess ==
    (c_pc = "TimedOut" /\ received = <<>>)
    => /\ servers = <<>>
       /\ invalid_servers = 0
       /\ c_result \in {"running", "Ok"}
       /\ Lines("Network error") = {}

\* C7 witness: the run timed out with nothing received and has returned.
C7_Witness == c_pc = "TimedOut" /\ received = <<>> /\ c_result = "Ok"

\* C8: a run ended by a receive error other than a timeout reports a failure
\* to its caller (and receives nothing more).
C8_RecvErrorReported ==
    (c_pc = "FatalError" /\ c_result # "running") => c_result = "Err"

\* C17: every record of the map has a non-empty service name and a port in
\* 0..65535 (a message with an empty service or a port beyond 65535 creates
\* no record).
C17_RecordsWellFormed ==
    \A id \in DOMAIN servers :
       /\ servers[id].service # <<>>
       /\ servers[id].port \in 0..MaxPort

\* C18: a record, once in the map, stays there with the same service, ip,
\* port and key whatever arrives later.
C18_RecordsNeverMutated ==
    [][\A id \in DOMAIN servers :
          /\ id \in DOMAIN servers'
          /\ servers'[id] = servers[id]]_vars

\* C18 witness: two valid messages named one endpoint with different service
\* names, and the record still has the name of the first.
C18_Witness ==
    \E i, j \in GotValid :
       /\ i < j
       /\ ValidFrom(Endpoint(received[i].desc)) = {i, j}
       /\ received[i].desc.service.v # received[j].desc.service.v
       /\ \E id \in DOMAIN servers :
             /\ id = format_server_id(received[i].desc.ip.v, received[i].desc.port.v)
             /\ servers[id].service = received[i].desc.service.v

\* the state of the design's machine the client is in: the socket is opened
\* and configured (Bound) while the run is still Idle
StateOf(pc) == IF pc = "Bound" THEN "Idle" ELSE pc

\* the steps of the design's machine
DesignSteps ==
    { <<"Idle", "RequestSent">>, <<"RequestSent", "Listening">>,
      <<"Listening", "TimedOut">>, <<"Listening", "FatalError">> }

\* the steps that end a run before it listens: bind, set_broadcast,
\* set_read_timeout or the send of the request failed and main returned Err
SetupSteps == { <<"Idle", "SetupFailed">> }

Terminal == {"TimedOut", "FatalError", "SetupFailed"}

\* the run's state changes only along the given steps
MovesAlong(steps) ==
    StateOf(c_pc') # StateOf(c_pc) => <<StateOf(c_pc), StateOf(c_pc')>> \in steps

\* C19: a run moves only along Idle -> RequestSent -> Listening ->
\* {TimedOut | FatalError}, or from Idle to a failed setup that returns an
\* error; the request is sent once, on the step into RequestSent and before
\* any receive; datagrams are received in Listening only; main returns only
\* from a terminal state, and after a terminal state is reached nothing is
\* received or sent and the state stays.
C19_RunPath ==
    [][/\ MovesAlong(DesignSteps \cup SetupSteps)
       /\ received' # received => c_pc = "Listening" /\ c_pc' = "Listening"
       /\ net' # net =>
             /\ StateOf(c_pc) = "Idle" /\ c_pc' = "RequestSent"
             /\ received = <<>>
             /\ net = {}
             /\ net' = Broadcast(discovery_message, CLIENT_ADDR)
       /\ c_pc' = "RequestSent" /\ c_pc # "RequestSent" => net' # net
       /\ c_result' # c_result => c_pc \in Terminal \/ c_pc' \in Terminal
       /\ c_pc \in Terminal =>
             c_pc' = c_pc /\ received' = received /\ net' = net]_vars

\* C19 witness: a run that sent its request, received two datagrams, ended
\* on a receive error and returned.
C19_Witness ==
    /\ c_pc = "FatalError"
    /\ c_result # "running"
    /\ Len(received) = 2
    /\ net = Broadcast(discovery_message, CLIENT_ADDR)

\* C19 as stated: the steps of the design's machine are the only ones, so a
\* run ends in TimedOut or FatalError only.
C19_DesignPathOnly == [][MovesAlong(DesignSteps)]_vars

\* what a run that receives the datagrams ds in this order does to cl
RECURSIVE RunOn(_, _)
RunOn(cl, ds) ==
    IF ds = <<>> THEN cl ELSE RunOn(OnMessage(cl, Head(ds).dec), Tail(ds))

\* the received datagrams in every order of arrival
Orders ==
    {[i \in 1..Len(received) |-> received[p[i]]] : p \in Permutations(1..Len(received))}

\* the record map and counter a run ends with when it receives ds
ResultOn(ds) ==
    LET cl == RunOn([servers |-> <<>>, invalid_servers |-> 0, stdout |-> <<>>], ds)
    IN  [servers |-> cl.servers, invalid_servers |-> cl.invalid_servers]

\* the valid messages received agree on the service of every endpoint
OneNamePerEndpoint ==
    \A i, j \in 1..Len(received) :
       (/\ IsValid(received[i].desc) /\ IsValid(received[j].desc)
        /\ Endpoint(received[i].desc) = Endpoint(received[j].desc))
       => received[i].desc.service.v = received[j].desc.service.v

\* C20: whatever the order in which the datagrams of a run arrive, the run
\* ends with the same endpoints in its map, each with the same ip, port and
\* key, and with the same counter; the whole map is the same when no two
\* valid messages name one endpoint with different service names.
C20_OrderFixesEndpoints ==
    (c_pc = "TimedOut" /\ c_result = "Ok")
    => LET agree == OneNamePerEndpoint
       IN  \A ds \in Orders :
              LET other == ResultOn(ds)
              IN  /\ other.invalid_servers = invalid_servers
                  /\ DOMAIN other.servers = DOMAIN servers
                  /\ \A id \in DOMAIN servers :
                        /\ other.servers[id].ip = servers[id].ip
                        /\ other.servers[id].port = servers[id].port
                        /\ other.servers[id].key = servers[id].key
                  /\ agree => other.servers = servers

\* C20 witness: a run that received an invalid-key message and valid
\* messages of two endpoints, which has other orders of arrival.
C20_Witness ==
    /\ c_pc = "TimedOut" /\ c_result = "Ok"
    /\ Cardinality(Orders) > 1
    /\ Cardinality(DOMAIN servers) = 2
    /\ invalid_servers = 1

\* C20 as stated: every order of arrival gives the same record map and the
\* same counter.
C20_OrderFixesRecords ==
    (c_pc = "TimedOut" /\ c_result = "Ok")
    => \A ds \in Orders :
          ResultOn(ds) = [servers |-> servers, invalid_servers |-> invalid_servers]

\* the first valid message received whole that names endpoint e
FirstFrom(e) == CHOOSE i \in ValidFrom(e) : \A j \in ValidFrom(e) : i <= j

\* the record a valid message makes
RecordFor(d) ==
    [service |-> d.service.v, ip |-> d.ip.v, port |-> d.port.v, key |-> d.key.v]

\* C30: the client identifies an endpoint by the ip and port written in the
\* payload alone.  Whatever source addresses the valid messages came from,
\* every endpoint they name has exactly one record, stored under the
\* "ip:port" the payload names, and that record holds the fields of the
\* message naming the endpoint that was received first.
C30_EndpointFromPayload ==
    \A e \in ValidEndpoints :
       LET id == format_server_id(e[1], e[2])
       IN  /\ RecordsOf(e) = {id}
           /\ servers[id] = RecordFor(received[FirstFrom(e)].desc)

\* two senders, the second one on another host than the one it names, have
\* named one endpoint with different service names; the map holds one
\* record, that of the message received first
C30_Witness ==
    \E i, j \in GotValid :
       /\ i < j
       /\ received[i].src # received[j].src
       /\ SourceIp(received[j].src) # received[j].desc.ip.v
       /\ Endpoint(received[i].desc) = Endpoint(received[j].desc)
       /\ RecordFor(received[i].desc) # RecordFor(received[j].desc)
       /\ Cardinality(DOMAIN servers) = 1
       /\ \A id \in DOMAIN servers : servers[id] = RecordFor(received[i].desc)

\* the line the loop prints for the i-th datagram of the run (a receive error
\* ends the loop, so the i-th line belongs to the i-th datagram)
EventOf(i) == stdout[i].ev

\* the valid messages received whole before the i-th datagram that name the
\* endpoint it names
Earlier(i) == {j \in ValidFrom(Endpoint(received[i].desc)) : j < i}

\* C29: every datagram received in a run is classified in exactly one way,
\* in the order parse, field completeness, key, endpoint novelty.  The
\* records, the duplicate events, the invalid-key events, the incomplete
\* events ("Malformed response") and the malformed events ("Non-JSON
\* response") add up to the number of datagrams received; a datagram read
\* whole gets the event of the first check it fails, so that an incomplete
\* message with a wrong key is an incomplete event and leaves the invalid
\* counter alone.
C29_ClassifiedOnce ==
    /\ Cardinality(DOMAIN servers) + Cardinality(Lines("Duplicate response"))
         + Cardinality(Lines("Invalid key")) + Cardinality(Lines("Malformed response"))
         + Cardinality(Lines("Non-JSON response")) = Len(received)
    /\ Cardinality(DOMAIN servers) = Cardinality(Lines("Server discovered"))
    /\ invalid_servers = Cardinality(Lines("Invalid key"))
    /\ \A i \in GotWhole :
          LET d == received[i].desc
          IN  EventOf(i) =
                 IF IsMalformed(d) THEN "Non-JSON response"
                 ELSE IF IsIncomplete(d) THEN "Malformed response"
                 ELSE IF IsInvalidKey(d) THEN "Invalid key"
                 ELSE IF Earlier(i) = {} THEN "Server discovered"
                 ELSE "Duplicate response"

\* an incomplete message with a wrong key has been received, and a valid
\* message and its duplicate: one incomplete event, no invalid-key event
C29_Witness ==
    /\ Len(received) = MaxRecv
    /\ \E i \in GotWhole :
          /\ IsIncomplete(received[i].desc)
          /\ received[i].desc.kind = "record"
          /\ received[i].desc.key.t = "str"
          /\ received[i].desc.key.v # expected_key
          /\ EventOf(i) = "Malformed response"
    /\ Lines("Duplicate response") # {}
    /\ invalid_servers = 0

\* the places of a grouping at which record id stands
PlacesOf(groups, id) ==
    {p \in UNION {{<<k, i>> : i \in DOMAIN groups[k]} : k \in DOMAIN groups} :
        groups[p[1]][p[2]] = id}

RECURSIVE SizeSum(_, _)
SizeSum(groups, ks) ==
    IF ks = {} THEN 0
    ELSE LET k == CHOOSE x \in ks : TRUE
         IN  Len(groups[k]) + SizeSum(groups, ks \ {k})

\* groups is a partition of the records of map by service name
IsPartition(groups, map) ==
    /\ \A id \in DOMAIN map :
          /\ Cardinality(PlacesOf(groups, id)) = 1
          /\ \A p \in PlacesOf(groups, id) : p[1] = map[id].service
    /\ \A k \in DOMAIN groups : \A i \in DOMAIN groups[k] : groups[k][i] \in DOMAIN map
    /\ SizeSum(groups, DOMAIN groups) = Cardinality(DOMAIN map)

\* C26: the grouping of a run's records by service name at the end of the
\* run is read-only and a partition.  The step that makes the summary leaves
\* the record map (and the counter) as they were, and in whatever order the
\* map yields its records, every record stands in exactly one group, once,
\* that group is the one keyed by the record's service, and the group sizes
\* add up to the number of records.
C26_GroupingIsPartition ==
    /\ [](c_result = "Ok" =>
            \A order \in ValueOrders(servers) :
               IsPartition(service_groups(servers, order), servers))
    /\ [][c_result' # c_result =>
            servers' = servers /\ invalid_servers' = invalid_servers]_vars

\* the summary has been made of three records in two groups
C26_Witness ==
    /\ c_result = "Ok"
    /\ Cardinality(DOMAIN servers) = MaxRecv
    /\ \E order \in ValueOrders(servers) :
          LET groups == service_groups(servers, order)
          IN  /\ Cardinality(DOMAIN groups) = 2
              /\ \E k \in DOMAIN groups : Len(groups[k]) = 2

(***************************************************************************)
(* Claims about the Limited announcer (specification SpecLimited)          *)
(***************************************************************************)
SendsOf(trace) == {i \in 1..Len(trace) : trace[i] \in {"send_ok", "send_err"}}

SleepsOf(trace) == {i \in 1..Len(trace) : trace[i] = "sleep"}

\* C6: the Limited announcer never makes more than max_count send attempts,
\* every sleep lies between two consecutive sends, and once it has returned
\* it has made exactly max_count attempts (failed ones included) and
\* max_count - 1 sleeps (none for max_count = 0), the last step being a send.
C6_LimitedSendsExactlyCount ==
    /\ Cardinality(SendsOf(a_trace)) <= a_cfg.max_count
    /\ \A i \in SleepsOf(a_trace) :
          /\ i > 1 /\ i - 1 \in SendsOf(a_trace)
          /\ i < Len(a_trace) => i + 1 \in SendsOf(a_trace)
    /\ a_pc = "returned" =>
          /\ Cardinality(SendsOf(a_trace)) = a_cfg.max_count
          /\ Cardinality(SleepsOf(a_trace)) =
                (IF a_cfg.max_count = 0 THEN 0 ELSE a_cfg.max_count - 1)
          /\ a_trace # <<>> => Len(a_trace) \in SendsOf(a_trace)

\* C6 witness: the announcer has returned after three attempts, the second of
\* which failed, with a sleep between them.
C6_Witness ==
    /\ a_pc = "returned"
    /\ a_cfg.max_count = 3
    /\ a_trace = <<"send_ok", "sleep", "send_err", "sleep", "send_ok">>

(***************************************************************************)
(* Claims about the Periodic announcer (specification SpecPeriodic)        *)
(***************************************************************************)
\* a text that needs no escaping inside a JSON string
Plain(text) == \A i \in 1..Len(text) : text[i] \notin {"\"", "\\"}

\* the datagram carries the record of these four values: it is the text the
\* role builds from them and, when service name and key are plain, a reader
\* of JSON gets the four values back from it
IsRecordOf(payload, service_name, local_ip, port, shared_key) ==
    /\ payload = format_message(service_name, local_ip, port, shared_key)
    /\ (Plain(service_name) /\ Plain(shared_key)) =>
          Decode(payload) = [ok |-> TRUE,
                             f |-> [some |-> TRUE, service |-> service_name,
                                    ip |-> local_ip, port |-> port, key |-> shared_key]]

\* C13: once in its loop the Periodic announcer never leaves it; every send
\* attempt, failed or not, is followed by a sleep and every sleep by another
\* send attempt; what it sends is the record of its configuration, to the
\* broadcast address on port 8888.
C13_PeriodicNeverStops ==
    /\ [][/\ a_pc \in {"p_send", "p_sleep"} => a_pc' \in {"p_send", "p_sleep"}
          /\ a_pc = "p_send" => a_pc' = "p_sleep"
          /\ a_pc = "p_sleep" => a_pc' = "p_send" /\ net' = net
          /\ net' # net =>
                /\ a_pc = "p_send"
                /\ \E payload \in {x.payload : x \in net' \ net} :
                      /\ net' = net \cup Broadcast(payload, ANNOUNCER_ADDR)
                      /\ IsRecordOf(payload, a_cfg.service_name, a_cfg.local_ip,
                                    a_cfg.port, a_cfg.shared_key)]_vars
    /\ (a_pc = "p_send") ~> (a_pc = "p_sleep")
    /\ (a_pc = "p_sleep") ~> (a_pc = "p_send")

\* C13 witness: a send failed, the announcer slept and sent again.
C13_Witness ==
    /\ a_pc = "p_sleep"
    /\ a_trace = <<"send_err", "sleep", "send_ok">>
    /\ net # {}

(***************************************************************************)
(* Claims about the service process (specification SpecService)            *)
(***************************************************************************)
\* the datagrams responder r takes from its socket in this step
Handled(r) == {m \in net \ net' : m.dst = ResponderAddr(r)}

\* the datagrams responder r puts on the network in this step
SentBy(r) == {x \in net' \ net : x.src = ResponderAddr(r)}

\* what the responder noted last
LastOf(trace) == trace[Len(trace)]

Lower(c) ==
    CASE c = "D" -> "d" [] c = "I" -> "i" [] c = "S" -> "s" [] c = "C" -> "c"
      [] c = "O" -> "o" [] c = "V" -> "v" [] c = "E" -> "e" [] c = "R" -> "r"
      [] OTHER -> c

ToLower(text) == [i \in 1..Len(text) |-> Lower(text[i])]

\* the word of request q is the token in one of the two spellings the
\* responder looks for, and lies within the first BUF_SIZE bytes
HasToken(q) ==
    /\ q.word \in {discovery_message, ToLower(discovery_message)}
    /\ Len(q.pre) + Len(q.word) <= BUF_SIZE

\* the word of request q is the token in any mix of upper and lower case
HasTokenAnyCase(q) == ToLower(q.word) = ToLower(discovery_message)

\* C11: a responder sends only in reaction to a datagram it has just taken
\* from its socket and that holds the trigger token: then at most one
\* datagram, the record of its configuration, to the source of that
\* datagram; a datagram without the token is followed by no send.
C11_NoUnsolicitedSend ==
    [][\A r \in Responders :
          /\ Cardinality(SentBy(r)) <= 1
          /\ \A x \in SentBy(r) :
                /\ IsRecordOf(x.payload, r_cfg[r].service_name, r_cfg[r].local_ip,
                              r_cfg[r].port, r_cfg[r].shared_key)
                /\ Cardinality(Handled(r)) = 1
                /\ \E m \in Handled(r) :
                      /\ x.dst = m.src
                      /\ \E q \in Requests : m.payload = RequestText(q) /\ HasToken(q)
          /\ \A m \in Handled(r) :
                (\E q \in Requests : m.payload = RequestText(q) /\ ~HasToken(q))
                => net' = net \ {m}]_vars

\* C11 witness: the responder has ignored a datagram without the token and
\* answered a request, and its answer is on its way to the requester.
C11_Witness ==
    /\ r_trace[SERVICE] = <<[ev |-> "ignored", to |-> OTHER_ADDR],
                            [ev |-> "sent", to |-> OTHER_ADDR]>>
    /\ \E x \in net : x.src = ResponderAddr(SERVICE) /\ x.dst = OTHER_ADDR

\* the responder tries to answer datagram m in this step, and a sent answer
\* is on its way to the source of m
Answers(r, m) ==
    /\ Len(r_trace'[r]) = Len(r_trace[r]) + 1
    /\ LastOf(r_trace'[r]).ev \in {"sent", "send_err"}
    /\ LastOf(r_trace'[r]).to = m.src
    /\ LastOf(r_trace'[r]).ev = "sent" =>
          \E x \in net' : x.src = ResponderAddr(r) /\ x.dst = m.src

\* C12: the responder tries to answer every datagram whose first BUF_SIZE
\* bytes hold "DISCOVER" or "discover" as a substring, and no other one.
C12_RepliesToTrigger ==
    [][\A r \in Responders : \A m \in Handled(r) : \A q \in Requests :
          m.payload = RequestText(q) => (Answers(r, m) <=> HasToken(q))]_vars

\* C12 witness: the responder has answered a request of another host and
\* then ignored another datagram of that host.
C12_Witness ==
    /\ r_trace[SERVICE] = <<[ev |-> "sent", to |-> OTHER_ADDR],
                            [ev |-> "ignored", to |-> OTHER_ADDR]>>
    /\ \E x \in net : x.src = ResponderAddr(SERVICE) /\ x.dst = OTHER_ADDR

\* C12 as stated: the responder answers every datagram that holds the token
\* under case-sensitive or case-insensitive comparison, and no other one.
C12_RepliesToAnyCase ==
    [][\A r \in Responders : \A m \in Handled(r) : \A q \in Requests :
          m.payload = RequestText(q) => (Answers(r, m) <=> HasTokenAnyCase(q))]_vars

\* the role has noted a failed setup
SetupFailed(trace) == \E i \in 1..Len(trace) : trace[i] = "setup_err"

\* C14: a role whose socket setup failed has panicked at once: it has sent
\* nothing, received nothing and never entered its loop.
C14_SetupFailureAborts ==
    /\ (SetupFailed(a_trace) \/ a_pc = "panicked") =>
          /\ a_pc = "panicked"
          /\ a_trace = <<"setup_err">>
          /\ \A m \in net : m.src # ANNOUNCER_ADDR
    /\ \A r \in Responders :
          (SetupFailed([i \in 1..Len(r_trace[r]) |-> r_trace[r][i].ev])
             \/ r_pc[r] = "panicked") =>
             /\ r_pc[r] = "panicked"
             /\ r_trace[r] = <<[ev |-> "setup_err", to |-> ""]>>
             /\ \A m \in net : m.src # ResponderAddr(r)

\* C14 witness: the Periodic announcer could not set its socket up while a
\* request for its host was on the network.
C14_Witness ==
    /\ discovery_service.mode.kind = "Periodic"
    /\ a_pc = "panicked"
    /\ \E m \in net : m.dst = ResponderAddr(SERVICE)

\* C15: a service started with Periodic or Limited announces and never
\* answers; a service started with OnRequest answers and never announces.
C15_OneRolePerMode ==
    LET kind == discovery_service.mode.kind
    IN  /\ kind \in {"Periodic", "Limited"} =>
              /\ r_pc[SERVICE] = "off"
              /\ r_trace[SERVICE] = <<>>
              /\ \A m \in net : m.src # ResponderAddr(SERVICE)
        /\ kind = "OnRequest" =>
              /\ a_pc = "off"
              /\ a_trace = <<>>
              /\ \A m \in net : m.src # ANNOUNCER_ADDR
        /\ kind = "Periodic" => a_pc \in {"off", "p_start", "p_send", "p_sleep", "panicked"}
        /\ kind = "Limited" =>
              a_pc \in {"off", "start", "loop", "sleep", "returned", "panicked"}

\* C15 witness: a Periodic service has announced while a request of another
\* host waits unanswered at port 8888 of its host.
C15_Witness ==
    /\ discovery_service.mode.kind = "Periodic"
    /\ \E i \in 1..Len(a_trace) : a_trace[i] = "send_ok"
    /\ \E m \in net : m.src = OTHER_ADDR /\ m.payload = discovery_message

\* the service runs: its role is past its setup, an announcer has announced
\* and a responder has failed no send
ServiceUp ==
    \/ /\ discovery_service.mode.kind = "Periodic"
       /\ a_pc \in {"p_send", "p_sleep"}
       /\ \E i \in 1..Len(a_trace) : a_trace[i] = "send_ok"
    \/ /\ discovery_service.mode.kind = "OnRequest"
       /\ r_pc[SERVICE] = "listening"
       /\ \A i \in 1..Len(r_trace[SERVICE]) : r_trace[SERVICE][i].ev # "send_err"

\* nothing is on its way to a socket that is open
NothingInFlight ==
    \A m \in net :
       /\ m.dst # CLIENT_ADDR
       /\ r_pc[SERVICE] = "listening" => m.dst # ResponderAddr(SERVICE)

\* the client's map has a record of the service
Found ==
    \E id \in DOMAIN servers :
       /\ servers[id].service = discovery_service.service_name
       /\ servers[id].port = discovery_service.port

\* Not a claim of its own: the half of C16 that the code keeps.  A client
\* that timed out with nothing in flight has found the OnRequest service
\* that holds the expected key (and has a plain name).
OnRequestServiceFound ==
    (/\ c_pc = "TimedOut"
     /\ discovery_service.mode.kind = "OnRequest"
     /\ ServiceUp /\ NothingInFlight
     /\ discovery_service.shared_key = expected_key
     /\ Plain(discovery_service.service_name))
    => Found

\* C16: a client that broadcast its request and listened until its receive
\* timed out, with nothing lost and nothing left in flight, has found the
\* running service that holds the expected key, in OnRequest mode and in
\* Periodic mode.
C16_RequestClientFindsService ==
    (/\ c_pc = "TimedOut"
     /\ ServiceUp /\ NothingInFlight
     /\ discovery_service.shared_key = expected_key
     /\ Plain(discovery_service.service_name))
    => Found

(***************************************************************************)
(* Claims about a run under an unending stream (specification SpecLive)    *)
(***************************************************************************)
\* C9: every discovery run terminates: whatever datagrams arrive, and however
\* long they keep arriving, the run eventually leaves the loop and returns.
C9_RunTerminates == <>(c_result # "running")

(***************************************************************************)
(* Claims about the client and the responders (specification SpecNet)      *)
(***************************************************************************)
\* the responders that hold the expected key and answer requests
Keyed == {r \in Responders : r_pc[r] = "listening" /\ r_cfg[r].shared_key = expected_key}

\* responder r answered the client's request
Answered(r) == \E i \in 1..Len(r_trace[r]) : r_trace[r][i] = [ev |-> "sent", to |-> CLIENT_ADDR]

\* the client received the answer of responder r
HeardFrom(r) == \E i \in 1..Len(received) : received[i].src = ResponderAddr(r)

\* C10: when the request reached every responder that holds the expected key
\* and each of their responses reached the client before its receive timed
\* out, the record map has an entry for each of them, with its service name,
\* ip and port.
C10_EveryKeyedServiceFound ==
    (/\ c_pc = "TimedOut"
     /\ \A r \in Keyed : Answered(r) /\ HeardFrom(r))
    => \A r \in Keyed :
          \E id \in DOMAIN servers :
             /\ servers[id].service = r_cfg[r].service_name
             /\ servers[id].ip = r_cfg[r].local_ip
             /\ servers[id].port = r_cfg[r].port

(***************************************************************************)
(* Claims about the records on a segment (specification SpecSegment)       *)
(***************************************************************************)
\* what a client that has found nothing yet makes of a datagram
FreshClient == [servers |-> <<>>, invalid_servers |-> 0, stdout |-> <<>>]

Reads(payload) ==
    OnMessage(FreshClient, Decode(from_utf8_lossy(Truncate(payload, BUF_SIZE))))

\* the client takes the datagram for a valid message and its record holds
\* the four values of cfg
DecodesTo(payload, cfg) ==
    LET cl == Reads(payload)
        id == format_server_id(cfg.local_ip, cfg.port)
    IN  /\ DOMAIN cl.servers = {id}
        /\ cl.servers[id] = [service |-> cfg.service_name, ip |-> cfg.local_ip,
                             port |-> cfg.port, key |-> cfg.shared_key]
        /\ cl.invalid_servers = 0

\* the party whose record a datagram of the segment carries
SenderCfg(m) ==
    IF m.src = ANNOUNCER_ADDR THEN a_cfg
    ELSE r_cfg[CHOOSE r \in Responders : ResponderAddr(r) = m.src]

RecordsOnWire == {m \in net : m.src = ANNOUNCER_ADDR \/ \E r \in Responders : m.src = ResponderAddr(r)}

\* Not a claim of its own: the part of C27 that the code keeps.  A record
\* whose service name and key need no escaping inside a JSON string decodes to
\* the configured values.
PlainRecordsDecode ==
    \A m \in RecordsOnWire :
       (Plain(SenderCfg(m).service_name) /\ Plain(SenderCfg(m).shared_key))
       => DecodesTo(m.payload, SenderCfg(m))

\* C27: encode then decode is the identity.  Every record that the announcer
\* or a responder has put on the wire is taken for a valid message by a client
\* whose expected key is the configured key, and the service, ip, port and key
\* it decodes are the configured ones.
C27_EncodeDecodeIdentity ==
    \A m \in RecordsOnWire :
       SenderCfg(m).shared_key = expected_key => DecodesTo(m.payload, SenderCfg(m))

\* the replies of responder r, sent or tried
RepliesOf(r) == {i \in DOMAIN r_trace[r] : r_trace[r][i].ev \in {"sent", "send_err"}}

\* the client requests responder r has read
RequestsReadBy(r) == {i \in DOMAIN r_trace[r] : r_trace[r][i].to = OTHER_ADDR}

\* Not a claim of its own: the part of C28 that the code keeps.  When neither
\* the announced service name nor the key contains the word in either
\* spelling, the announcements are ignored.
TokenFreeRecordsIgnored ==
    ~IsDiscoveryRequest(a_cfg.service_name \o a_cfg.shared_key)
    => \A r \in Responders : \A i \in RepliesOf(r) : r_trace[r][i].to = OTHER_ADDR

\* C28: a record produced by this system never triggers a reply.  A responder
\* ignores the announcements and the responses it reads, whatever the
\* service name and key in them: it replies to client requests only, and the
\* responders together have sent no more replies than client requests were
\* read by them.
C28_OwnRecordsIgnored ==
    /\ \A r \in Responders : \A i \in RepliesOf(r) : r_trace[r][i].to = OTHER_ADDR
    /\ \A r \in Responders : Cardinality(RepliesOf(r)) <= Cardinality(RequestsReadBy(r))

(***************************************************************************)
(* Claims about the passive listener (specification SpecListener)          *)
(***************************************************************************)
\* the datagrams the listener has read so far
Heard == {i \in DOMAIN l_out : l_out[i].desc # <<>>}

\* the receive errors the listener has had so far
ListenerErrors == {i \in DOMAIN l_out : l_out[i].ev = "Error receiving data"}

\* C21: the passive listener never sends a datagram and never leaves its
\* receive loop.  No datagram on the segment comes from its socket, no step
\* of the listener changes the network, and once it is in the loop every
\* step (a valid, an invalid, a malformed datagram, a receive error) leaves
\* it there; there is no timeout to end it.
C21_ListenerNeverSendsNorStops ==
    /\ [](\A m \in net : m.src # LISTENER_ADDR)
    /\ [][/\ l_pc = "listening" => l_pc' = "listening"
          /\ l_out' # l_out => net' = net]_vars

\* the listener has had a receive error and then a datagram that is no JSON,
\* and is in its loop
C21_Witness ==
    /\ l_pc = "listening"
    /\ Len(l_out) = MaxTrace
    /\ l_out[1].ev = "Error receiving data"
    /\ l_out[Len(l_out)].ev = "Failed to parse JSON"

\* what main keeps from one turn of its loop to the next: expected_key, the
\* socket and the buffer (lines 8-16).  It declares no collection of servers
\* and no counter.
ListenerCatalog == {}

ListenerTallies == [invalid |-> 0, malformed |-> 0]

\* C22: the passive listener keeps a live catalog.  After any sequence of
\* datagrams its catalog contains the endpoint of every valid message read so
\* far, its invalid tally is the number of invalid-key and incomplete
\* datagrams read so far and its malformed tally the number of unparseable
\* ones.
C22_LiveCatalog ==
    /\ \A i \in Heard : IsValid(l_out[i].desc) => Endpoint(l_out[i].desc) \in ListenerCatalog
    /\ ListenerTallies.invalid =
          Cardinality({i \in Heard : IsInvalidKey(l_out[i].desc) \/ IsIncomplete(l_out[i].desc)})
    /\ ListenerTallies.malformed = Cardinality({i \in Heard : IsMalformed(l_out[i].desc)})

\* the errors responder r has had in its loop: failed receives, failed sends
ResponderErrors(r) == {i \in DOMAIN r_trace[r] : r_trace[r][i].ev \in {"recv_err", "send_err"}}

\* C25: neither a receive error nor, for the responder, a failure to send a
\* response ends the loop.  After any such error the responder is in its loop,
\* reads a request that is waiting for it, and every request it has read
\* after the error was answered; after a receive error the listener is in its
\* loop and reads the next datagram.
C25_ErrorsDoNotEndLoop ==
    /\ \A r \in Responders :
          ResponderErrors(r) # {} =>
             /\ r_pc[r] = "listening"
             /\ \A m \in net :
                   (m.dst = ResponderAddr(r) /\ Len(r_trace[r]) < MaxTrace)
                   => ENABLED ResponderRecv(r, m)
             /\ \A i \in ResponderErrors(r) : \A j \in RequestsReadBy(r) :
                   i < j => r_trace[r][j].ev \in {"sent", "send_err"}
    /\ ListenerErrors # {} =>
          /\ l_pc = "listening"
          /\ Len(l_out) < MaxTrace => ENABLED ListenerHear

\* after a failed send the responder has sent a reply, and after a receive
\* error the listener has read a valid announcement
C25_Witness ==
    /\ \E r \in Responders :
          /\ Len(r_trace[r]) = MaxTrace
          /\ r_trace[r][1].ev = "send_err"
          /\ r_trace[r][Len(r_trace[r])].ev = "sent"
    /\ Len(l_out) = MaxTrace
    /\ l_out[1].ev = "Error receiving data"
    /\ l_out[Len(l_out)].ev = "Valid server discovered"

(***************************************************************************)
(* The command processor (nlp.rs, NlpProcessor::process) and its callback  *)
(* manager (callbacks.rs, CallbackManager)                                 *)
(***************************************************************************)
\* char::is_whitespace, for the characters the inputs are written with
White_Space == {" ", "\t", "\n", "\r"}

\* str::trim: leading and trailing white space removed
trim(s) ==
    LET ink == {i \in 1..Len(s) : s[i] \notin White_Space}
    IN  IF ink = {} THEN <<>>
        ELSE SubSeq(s, CHOOSE i \in ink : \A j \in ink : i <= j,
                       CHOOSE i \in ink : \A j \in ink : j <= i)

UpperCase == <<"A","B","C","D","E","F","G","H","I","J","K","L","M","N","O","P","Q","R","S","T","U","V","W","X","Y","Z">>

LowerCase == <<"a","b","c","d","e","f","g","h","i","j","k","l","m","n","o","p","q","r","s","t","u","v","w","x","y","z">>

\* str::to_lowercase, for the characters the inputs are written with
to_lowercase(s) ==
    [i \in 1..Len(s) |->
        IF \E k \in 1..Len(UpperCase) : UpperCase[k] = s[i]
        THEN LowerCase[CHOOSE k \in 1..Len(UpperCase) : UpperCase[k] = s[i]]
        ELSE s[i]]

\* callbacks.rs lines 86-100: SystemCommandHandler::get_supported_commands
SystemCommands ==
    { <<"i","n","s","t","a","l","l">>, <<"f","i","n","d","_","f","i","l","e">>, <<"f","i","n","d","_","c","o","n","t","e","n","t">>, <<"g","e","t","_","f","i","l","e","_","f","r","o","m">>,
      <<"s","h","o","w","_","t","o","o","l","s">>, <<"o","p","e","n","_","a","p","p">>, <<"o","p","e","n","_","f","i","l","e">>, <<"c","h","e","c","k","o","u","t">>, <<"d","i","f","f">>,
      <<"g","o","o","g","l","e","_","s","e","a","r","c","h">>, <<"a","s","k","_","a","i">> }

\* callbacks.rs lines 351-361: NlpCallbackHandler::get_supported_commands
NlpCommands ==
    { <<"s","e","n","t","i","m","e","n","t">>, <<"s","u","m","m","a","r","i","z","e">>, <<"c","l","a","s","s","i","f","y">>, <<"e","x","t","r","a","c","t","_","k","e","y","w","o","r","d","s">>,
      <<"t","r","a","n","s","l","a","t","e">>, <<"q","u","e","s","t","i","o","n","_","a","n","s","w","e","r">>, <<"n","a","t","u","r","a","l","_","l","a","n","g","u","a","g","e">> }

\* nlp.rs lines 61-79: the tasks the match of process has an arm for
SupportedTasks == SystemCommands \cup NlpCommands

\* callbacks.rs lines 42-47
get_supported_commands(handler) ==
    IF handler = "System" THEN SystemCommands ELSE NlpCommands

K_suggested_commands == <<"s","u","g","g","e","s","t","e","d","_","c","o","m","m","a","n","d","s">>

\* a handler's Ok(CallbackResult) and its Err
Done(success, msg) == [ok |-> TRUE, success |-> success, message |-> msg]

Failed(e) == [ok |-> FALSE, e |-> e]

\* callbacks.rs lines 63-84 and 105-322: SystemCommandHandler::handle.  Every
\* callback parses parsed_result first and fails when it is no JSON; the
\* install callback reports success only when it finds the array
\* suggested_commands.
SystemHandle(context) ==
    LET parsed_data == from_str(context.parsed_result)
    IN  IF context.command \notin SystemCommands THEN Failed("Unsupported command")
        ELSE IF ~parsed_data.ok THEN Failed("serde_json")
        ELSE IF context.command = <<"i","n","s","t","a","l","l">>
        THEN IF get(parsed_data.val, K_suggested_commands).t = "arr"
             THEN Done(TRUE, "Install callback processed")
             ELSE Done(FALSE, "Failed to parse install commands")
        ELSE Done(TRUE, "callback processed")

\* callbacks.rs lines 330-349 and 367-493: NlpCallbackHandler::handle.  The
\* summarize and natural_language callbacks do not parse parsed_result.
NlpHandle(context) ==
    IF context.command \notin NlpCommands THEN Failed("Unsupported NLP command")
    ELSE IF context.command \in {<<"s","u","m","m","a","r","i","z","e">>, <<"n","a","t","u","r","a","l","_","l","a","n","g","u","a","g","e">>}
    THEN Done(TRUE, "completed")
    ELSE IF ~from_str(context.parsed_result).ok THEN Failed("serde_json")
    ELSE Done(TRUE, "completed")

\* callbacks.rs lines 35-40
handle(handler, context) ==
    IF handler = "System" THEN SystemHandle(context) ELSE NlpHandle(context)

\* mutant of Outcome: the failure of a handler leaves no result
Outcome_FailureDropped(results, name, r) ==
    IF r.ok THEN Append(results, [success |-> r.success, message |-> <<r.message>>])
    ELSE results

\* callbacks.rs lines 524-540: the result pushed for a handler that was run
Outcome(results, name, r) ==
    IF r.ok THEN Append(results, [success |-> r.success, message |-> <<r.message>>])
    ELSE Append(results, [success |-> FALSE, message |-> <<"Callback failed", name, r.e>>])

\* callbacks.rs lines 520-541: the loop over the handlers, taken in the given
\* order; run is [results, invoked]
RECURSIVE CallbackFold(_, _, _, _)
CallbackFold(map, context, order, run) ==
    IF order = <<>> THEN run
    ELSE LET name    == Head(order)
             handler == map[name]
         IN  CallbackFold(map, context, Tail(order),
                IF context.command \in get_supported_commands(handler)
                THEN [results |-> Outcome(run.results, name, handle(handler, context)),
                      invoked |-> Append(run.invoked, name)]
                ELSE run)

\* callbacks.rs lines 517-553: CallbackManager::execute_callback
execute_callback(map, context, order) ==
    LET run == CallbackFold(map, context, order, [results |-> <<>>, invoked |-> <<>>])
    IN  [ret |-> [ok |-> TRUE,
                  results |-> IF run.results = <<>>
                              THEN <<[success |-> TRUE, message |-> <<"No callbacks registered">>]>>
                              ELSE run.results],
         invoked |-> run.invoked]

\* callbacks.rs lines 498-508: CallbackManager::new
DefaultHandlers == [name \in {"system", "nlp"} |-> IF name = "system" THEN "System" ELSE "Nlp"]

\* the texts a task function may return: the eighteen task functions of
\* nlp.rs (lines 131-813) are not modelled one by one; each of them returns
\* Ok with a text that is a JSON object or plain text
ResultTexts ==
    { <<"{","\"","s","u","g","g","e","s","t","e","d","_","c","o","m","m","a","n","d","s","\"",":","[","\"","x","\"","]","}">>, <<"{","\"","a","\"",":","1","}">>, <<"h","i">> }

\* the arguments process is called with
Texts == { <<" ", "\n">>, <<"h","i">> }

Tasks ==
    { <<"s","e","n","t","i","m","e","n","t">>, <<"S","E","N","T","I","M","E","N","T">>,
      <<"i","n","s","t","a","l","l">>, <<"u","n","s","u","p","p","o","r","t","e","d","_","t","a","s","k">> }

\* the handlers a caller may register, and the contexts execute_callback is
\* called with
HandlerNames == {"extra"}

HandlerKinds == {"System", "Nlp"}

Contexts ==
    [command : {<<"s","e","n","t","i","m","e","n","t">>, <<"i","n","s","t","a","l","l">>, <<"S","E","N","T","I","M","E","N","T">>},
     input_text : {<<"h","i">>}, parsed_result : ResultTexts]

\* mutant of CheckedFirst: the task is looked at before the text
CheckedFirst_Task(text, task) ==
    IF to_lowercase(task) \notin SupportedTasks THEN "Unsupported task"
    ELSE IF trim(text) = <<>> THEN "Input text cannot be empty"
    ELSE "none"

\* nlp.rs lines 55-57 and 60-80: the error process returns before it runs
\* any task, "none" when there is none
CheckedFirst(text, task) ==
    IF trim(text) = <<>> THEN "Input text cannot be empty"
    ELSE IF to_lowercase(task) \notin SupportedTasks THEN "Unsupported task"
    ELSE "none"

\* nlp.rs lines 54-87: NlpProcessor::process, with execute_callbacks (lines
\* 90-123), which passes the task as it was written as the command
Process(text, task) ==
    /\ handlers # <<>>
    /\ LET e == CheckedFirst(text, task)
       IN  IF e # "none"
           THEN /\ p_result' = [text |-> text, task |-> task,
                                out |-> [ok |-> FALSE, e |-> e, task |-> task],
                                invoked |-> <<>>]
                /\ executed' = <<>>
                /\ cb_results' = cb_results
           ELSE \E result \in ResultTexts : \E order \in ValueOrders(handlers) :
                \E context \in {[command |-> task, input_text |-> text,
                                  parsed_result |-> result]} :
                \E run \in {execute_callback(handlers, context, order)} :
                   /\ p_result' = [text |-> text, task |-> task,
                                   out |-> [ok |-> TRUE, result |-> result],
                                   invoked |-> run.invoked]
                   /\ executed' = run.invoked
                   /\ cb_results' = [context |-> context, ret |-> run.ret,
                                     invoked |-> run.invoked, by |-> handlers]
    /\ UNCHANGED <<handlers, listener_vars, net, received>>
    /\ UNCHANGED <<client_vars, announcer_vars, responder_vars, discovery_service>>

\* callbacks.rs lines 517-553: a call of execute_callback by another caller
ExecuteCallback(context) ==
    /\ handlers # <<>>
    /\ \E order \in ValueOrders(handlers) :
       \E run \in {execute_callback(handlers, context, order)} :
          /\ executed' = run.invoked
          /\ cb_results' = [context |-> context, ret |-> run.ret,
                            invoked |-> run.invoked, by |-> handlers]
    /\ UNCHANGED <<handlers, p_result, listener_vars, net, received>>
    /\ UNCHANGED <<client_vars, announcer_vars, responder_vars, discovery_service>>

\* callbacks.rs lines 511-514: register_handler
RegisterHandler(name, handler) ==
    /\ handlers # <<>>
    /\ handlers' = insert(handlers, name, handler)
    /\ UNCHANGED <<p_result, cb_results, executed, listener_vars, net, received>>
    /\ UNCHANGED <<client_vars, announcer_vars, responder_vars, discovery_service>>

ProcessCall == \E text \in Texts : \E task \in Tasks : Process(text, task)

CallbackCall == \E context \in Contexts : ExecuteCallback(context)

RegisterCall == \E name \in HandlerNames : \E handler \in HandlerKinds : RegisterHandler(name, handler)

\* a processor after NlpProcessor::new, called with any of the arguments
InitNlp ==
    /\ ClientOff
    /\ AnnouncerOff
    /\ RespondersOff
    /\ discovery_service = <<>>
    /\ ListenerOff
    /\ net = {}
    /\ received = <<>>
    /\ handlers = DefaultHandlers
    /\ p_result = <<>>
    /\ cb_results = <<>>
    /\ executed = <<>>

NextNlp ==
    \/ ProcessCall
    \/ CallbackCall
    \/ RegisterCall

SpecNlp == InitNlp /\ [][NextNlp]_vars

(***************************************************************************)
(* Claims about the command processor (specification SpecNlp)              *)
(***************************************************************************)
\* the text is empty or white space only
Blank(text) == \A i \in 1..Len(text) : text[i] \in White_Space

\* the two names differ at most in the case of their letters
SameButCase(s, t) ==
    /\ Len(s) = Len(t)
    /\ \A i \in 1..Len(s) :
          \/ s[i] = t[i]
          \/ \E k \in 1..Len(UpperCase) : {s[i], t[i]} = {UpperCase[k], LowerCase[k]}

\* the task, lower-cased, is one of the supported tasks
Supported(task) ==
    \E t \in SupportedTasks : SameButCase(task, t) /\ t = to_lowercase(t)

\* C23: process(text, task) returns an error and executes no callback when
\* the text is empty or white space only (the error says the input cannot be
\* empty) or when the lower-cased task is not a supported task (the error
\* says unsupported task and names it); the text is checked first, so a blank
\* text with an unsupported task gives the first error.
C23_RejectsBlankAndUnsupported ==
    p_result # <<>> =>
       LET text == p_result.text
           task == p_result.task
           out  == p_result.out
       IN  /\ Blank(text) =>
                 /\ ~out.ok /\ out.e = "Input text cannot be empty"
                 /\ p_result.invoked = <<>>
           /\ (~Blank(text) /\ ~Supported(task)) =>
                 /\ ~out.ok /\ out.e = "Unsupported task" /\ out.task = task
                 /\ p_result.invoked = <<>>

\* after a call of execute_callback by another caller, process was called
\* with a blank text and an unsupported task: the error is the one of the
\* text, and nothing was run
C23_Witness ==
    /\ p_result # <<>>
    /\ Blank(p_result.text) /\ p_result.text # <<>>
    /\ ~Supported(p_result.task)
    /\ p_result.out.e = "Input text cannot be empty"
    /\ executed = <<>>
    /\ cb_results # <<>>

\* the handlers of map that support the command
Supporting(map, command) ==
    {name \in DOMAIN map : command \in get_supported_commands(map[name])}

\* C24: execute_callback never returns an error and never an empty list.  It
\* returns one result per registered handler whose supported commands
\* contain the command of the context, in the order the handlers were run, a
\* handler that failed giving a result with success = false; when no handler
\* supports the command it returns a single result with success = true.
C24_OneResultPerHandler ==
    cb_results # <<>> =>
       LET context == cb_results.context
           ret     == cb_results.ret
           invoked == cb_results.invoked
           sup     == Supporting(cb_results.by, context.command)
       IN  /\ ret.ok
           /\ ret.results # <<>>
           /\ IF sup = {}
              THEN /\ Len(ret.results) = 1
                   /\ ret.results[1].success
                   /\ invoked = <<>>
              ELSE /\ Len(ret.results) = Cardinality(sup)
                   /\ Len(invoked) = Cardinality(sup)
                   /\ {invoked[i] : i \in DOMAIN invoked} = sup
                   /\ \A i \in DOMAIN invoked :
                         LET r == handle(cb_results.by[invoked[i]], context)
                         IN  ret.results[i].success = (r.ok /\ r.success)

\* two handlers support the command of the last call and both have failed
C24_Witness ==
    /\ cb_results # <<>>
    /\ Cardinality(Supporting(cb_results.by, cb_results.context.command)) = 2
    /\ Len(cb_results.ret.results) = 2
    /\ \A i \in 1..2 : ~cb_results.ret.results[i].success

====
